---- MODULE Spec2Model ----
(***************************************************************************)
(* Model of the thought-analysis core: ContradictionDetector               *)
(* (src/analytics/contradictionDetector.ts), PromptAnalyzer                *)
(* (src/unnamed/part_000) and the pattern analysis of                      *)
(* IntelligenceMaximizationModule                                          *)
(* (src/analytics/intelligenceMaximizationModule.ts).  A specification     *)
(* draws the arguments in Init; each action applies one entry point to     *)
(* them and stores what it returns in ret.  When the caller takes the      *)
(* result and goes on to another call, the result joins history.           *)
(* PromptContext (src/unnamed/part_000) is the one object with fields that *)
(* a method writes; promptContext holds them.                              *)
(*                                                                         *)
(* Texts are TLA+ strings, handled character by character with Len,        *)
(* SubSeq and \o, so that toLowerCase, split, trim, includes, startsWith   *)
(* and slice do what the JavaScript built-ins do on the ASCII texts drawn. *)
(* An optional field (classification?, assumptions?) is <<>> when absent   *)
(* and <<v>> when present.  The similarity estimator is external: its      *)
(* value for a pair is chosen nondeterministically, in hundredths.         *)
(***************************************************************************)
EXTENDS Integers, Sequences, FiniteSets, TLC

VARIABLES
    pc,                \* "call" before the entry point runs, its name after
    newThought,        \* checkContradictions: the new thought
    existingThoughts,  \* the thought list handed to an entry point
    similarity,        \* estimator's answer for (newThought, existingThoughts[i])
    assumption1,       \* areAssumptionsConflicting: first argument
    assumption2,       \* areAssumptionsConflicting: second argument
    thought,           \* PromptAnalyzer: the thought text
    promptMetadata,    \* PromptAnalyzer: the metadata argument
    prompt,            \* analyzePrompt: the prompt string
    probabilities,     \* calculateEntropy: the frequencies, as fractions
    ret,               \* what the entry point returned
    history,           \* the results the caller took before the current call
    promptContext      \* the PromptContext object: its metadata and originalPrompt

vars == <<pc, newThought, existingThoughts, similarity, assumption1,
          assumption2, thought, promptMetadata, prompt, probabilities, ret,
          history, promptContext>>

-----------------------------------------------------------------------------
(* JavaScript values and string built-ins                                  *)

Absent == <<>>
Present(v) == <<v>>
IsPresent(o) == o # <<>>
Get(o) == o[1]

NoRet == [op |-> "none"]

\* null
Null == [null |-> TRUE]

\* a PromptContext as its field initialisers leave it
NewPromptContext == [metadata |-> Null, originalPrompt |-> ""]

UpperToLower ==
    ("A" :> "a") @@ ("B" :> "b") @@ ("C" :> "c") @@ ("D" :> "d") @@
    ("E" :> "e") @@ ("F" :> "f") @@ ("G" :> "g") @@ ("H" :> "h") @@
    ("I" :> "i") @@ ("J" :> "j") @@ ("K" :> "k") @@ ("L" :> "l") @@
    ("M" :> "m") @@ ("N" :> "n") @@ ("O" :> "o") @@ ("P" :> "p") @@
    ("Q" :> "q") @@ ("R" :> "r") @@ ("S" :> "s") @@ ("T" :> "t") @@
    ("U" :> "u") @@ ("V" :> "v") @@ ("W" :> "w") @@ ("X" :> "x") @@
    ("Y" :> "y") @@ ("Z" :> "z")

UpperChars == DOMAIN UpperToLower
LowerChars == {UpperToLower[c] : c \in UpperChars}
DigitChars == {"0", "1", "2", "3", "4", "5", "6", "7", "8", "9"}
\* \w of a JavaScript regular expression
WordChars == UpperChars \cup LowerChars \cup DigitChars \cup {"_"}
\* \s of a JavaScript regular expression, on the texts drawn here
SpaceChars == {" ", "\t", "\n"}

CharAt(s, i) == SubSeq(s, i, i)

\* The character maps below halve the string instead of peeling one
\* character, which keeps the evaluation shallow on long prompts
RECURSIVE ToLowerCase(_)
ToLowerCase(s) ==
    IF Len(s) = 0 THEN ""
    ELSE IF Len(s) = 1 THEN (IF s \in UpperChars THEN UpperToLower[s] ELSE s)
    ELSE LET half == Len(s) \div 2
         IN ToLowerCase(SubSeq(s, 1, half)) \o ToLowerCase(SubSeq(s, half + 1, Len(s)))

\* String.prototype.toUpperCase, on one character
ToUpperChar(c) ==
    IF c \in LowerChars
    THEN CHOOSE u \in UpperChars : UpperToLower[u] = c
    ELSE c

Includes(s, sub) ==
    \E i \in 1..(Len(s) - Len(sub) + 1) : SubSeq(s, i, i + Len(sub) - 1) = sub

StartsWith(s, pre) == Len(s) >= Len(pre) /\ SubSeq(s, 1, Len(pre)) = pre

\* s.slice(n) for 0 <= n
SliceFrom(s, n) == SubSeq(s, n + 1, Len(s))

\* the k-th smallest element of a set of integers
KthSmallest(S, k) == CHOOSE p \in S : Cardinality({q \in S : q < p}) = k - 1

\* the elements of seq at the indices in I, in order
AtIndices(seq, I) == [k \in 1..Cardinality(I) |-> seq[KthSmallest(I, k)]]

\* s.split(c) for a one-character separator: every separator cuts
SplitEach(s, seps) ==
    LET cuts == {i \in 1..Len(s) : CharAt(s, i) \in seps}
        n == Cardinality(cuts)
        CutAt(k) == IF k = 0 THEN 0
                    ELSE IF k > n THEN Len(s) + 1
                    ELSE KthSmallest(cuts, k)
    IN [k \in 1..(n + 1) |-> SubSeq(s, CutAt(k - 1) + 1, CutAt(k) - 1)]

\* s.split(/[seps]+/): a run of separators cuts once, so only the first and
\* the last piece can be empty
SplitRuns(s, seps) ==
    LET pieces == SplitEach(s, seps)
    IN AtIndices(pieces, {i \in 1..Len(pieces) :
                             Len(pieces[i]) > 0 \/ i = 1 \/ i = Len(pieces)})

RECURSIVE TrimStart(_)
TrimStart(s) ==
    IF Len(s) > 0 /\ CharAt(s, 1) \in SpaceChars
    THEN TrimStart(SubSeq(s, 2, Len(s))) ELSE s

RECURSIVE TrimEnd(_)
TrimEnd(s) ==
    IF Len(s) > 0 /\ CharAt(s, Len(s)) \in SpaceChars
    THEN TrimEnd(SubSeq(s, 1, Len(s) - 1)) ELSE s

Trim(s) == TrimEnd(TrimStart(s))

\* s.replace(/[^\w\s]/g, '')
RECURSIVE StripPunctuation(_)
StripPunctuation(s) ==
    IF Len(s) = 0 THEN ""
    ELSE IF Len(s) = 1 THEN (IF s \in WordChars \cup SpaceChars THEN s ELSE "")
    ELSE LET half == Len(s) \div 2
         IN StripPunctuation(SubSeq(s, 1, half))
                \o StripPunctuation(SubSeq(s, half + 1, Len(s)))

\* s.replace(/[^\w]/g, '')
RECURSIVE StripNonWord(_)
StripNonWord(s) ==
    IF Len(s) = 0 THEN ""
    ELSE IF Len(s) = 1 THEN (IF s \in WordChars THEN s ELSE "")
    ELSE LET half == Len(s) \div 2
         IN StripNonWord(SubSeq(s, 1, half)) \o StripNonWord(SubSeq(s, half + 1, Len(s)))

\* Array.prototype.slice(0, n)
SliceTo(seq, n) == SubSeq(seq, 1, IF Len(seq) < n THEN Len(seq) ELSE n)

\* Array.prototype.join
RECURSIVE Join(_, _)
Join(seq, sep) ==
    IF seq = <<>> THEN ""
    ELSE IF Len(seq) = 1 THEN seq[1]
    ELSE seq[1] \o sep \o Join(Tail(seq), sep)

Range(seq) == {seq[i] : i \in 1..Len(seq)}

-----------------------------------------------------------------------------
(* ContradictionDetector: the pairwise checks                              *)

\* A call that returns normally; no entry point has a throw statement
Returned(name, value) == [op |-> name, outcome |-> "returned", value |-> value]

\* JavaScript truthiness of a string | null result
Truthy(o) == IsPresent(o) /\ Get(o) # ""

RECURSIVE Reverse(_)
Reverse(seq) == IF seq = <<>> THEN <<>> ELSE Reverse(Tail(seq)) \o <<Head(seq)>>

opposingPairs == {"hypothesis:conclusion", "question:solution", "observation:conclusion"}

\* hasOpposingClassifications looking the pair up in one order only
hasOpposingClassifications_OneOrder(thought1, thought2) ==
    IF IsPresent(thought1.classification) /\ IsPresent(thought2.classification)
    THEN (Get(thought1.classification) \o ":" \o Get(thought2.classification))
             \in opposingPairs
    ELSE FALSE

hasOpposingClassifications(thought1, thought2) ==
    IF IsPresent(thought1.classification) /\ IsPresent(thought2.classification)
    THEN LET pair == Get(thought1.classification) \o ":" \o Get(thought2.classification)
         IN \/ pair \in opposingPairs
            \/ Join(Reverse(SplitEach(pair, {":"})), ":") \in opposingPairs
    ELSE FALSE

conclusionNegationWords == {"not", "never", "no", "cannot", "don't", "doesn't"}

containsNegation(text, negationWords) ==
    \E word \in Range(SplitEach(ToLowerCase(text), {" "})) : word \in negationWords

hasConflictingConclusions(thought1, thought2) ==
    IF thought1.classification # Present("conclusion")
         \/ thought2.classification # Present("conclusion")
    THEN FALSE
    ELSE containsNegation(thought1.thought, conclusionNegationWords)
            # containsNegation(thought2.thought, conclusionNegationWords)

\* areAssumptionsConflicting testing the "not " prefix case-sensitively
areAssumptionsConflicting_CaseSensitivePrefix(a1, a2) ==
    LET negated1 == StartsWith(a1, "not ")
        negated2 == StartsWith(a2, "not ")
        base1 == IF negated1 THEN SliceFrom(a1, 4) ELSE a1
        base2 == IF negated2 THEN SliceFrom(a2, 4) ELSE a2
    IN ToLowerCase(base1) = ToLowerCase(base2) /\ negated1 # negated2

\* areAssumptionsConflicting comparing the bases only
areAssumptionsConflicting_BasesOnly(a1, a2) ==
    LET negated1 == StartsWith(ToLowerCase(a1), "not ")
        negated2 == StartsWith(ToLowerCase(a2), "not ")
        base1 == IF negated1 THEN SliceFrom(a1, 4) ELSE a1
        base2 == IF negated2 THEN SliceFrom(a2, 4) ELSE a2
    IN ToLowerCase(base1) = ToLowerCase(base2)

areAssumptionsConflicting(a1, a2) ==
    LET negated1 == StartsWith(ToLowerCase(a1), "not ")
        negated2 == StartsWith(ToLowerCase(a2), "not ")
        base1 == IF negated1 THEN SliceFrom(a1, 4) ELSE a1
        base2 == IF negated2 THEN SliceFrom(a2, 4) ELSE a2
    IN ToLowerCase(base1) = ToLowerCase(base2) /\ negated1 # negated2

\* returns the joined conflicts, or null (Absent)
checkAssumptionConflicts(thought1, thought2) ==
    IF ~IsPresent(thought1.assumptions) \/ ~IsPresent(thought2.assumptions)
    THEN Absent
    ELSE LET others == Get(thought2.assumptions)
             Conflicts(a) == \E i \in 1..Len(others) :
                                 areAssumptionsConflicting(a, others[i])
             conflicts == SelectSeq(Get(thought1.assumptions), Conflicts)
         IN IF Len(conflicts) > 0 THEN Present(Join(conflicts, ", ")) ELSE Absent

\* The estimator answers in [0,1]; sim is its answer in hundredths
SimilarityGate == 50

\* detectSimilarContradiction looking at the assumptions first
detectSimilarContradiction_AssumptionsFirst(thought1, thought2) ==
    LET assumptionConflicts == checkAssumptionConflicts(thought1, thought2)
    IN IF Truthy(assumptionConflicts)
       THEN Present("Conflicting assumptions: " \o Get(assumptionConflicts))
       ELSE IF hasOpposingClassifications(thought1, thought2)
       THEN Present("Opposing classifications: " \o Get(thought1.classification)
                        \o " vs " \o Get(thought2.classification))
       ELSE IF hasConflictingConclusions(thought1, thought2)
       THEN Present("Conflicting conclusions detected")
       ELSE Absent

\* The three checks applied to a similar pair, first that fires; returns the
\* explanation, or null (Absent)
detectSimilarContradiction(thought1, thought2) ==
    IF hasOpposingClassifications(thought1, thought2)
    THEN Present("Opposing classifications: " \o Get(thought1.classification)
                     \o " vs " \o Get(thought2.classification))
    ELSE IF hasConflictingConclusions(thought1, thought2)
    THEN Present("Conflicting conclusions detected")
    ELSE LET assumptionConflicts == checkAssumptionConflicts(thought1, thought2)
         IN IF Truthy(assumptionConflicts)
            THEN Present("Conflicting assumptions: " \o Get(assumptionConflicts))
            ELSE Absent

\* detectContradiction letting a similarity of exactly 0.5 through
detectContradiction_GateInclusive(thought1, thought2, sim) ==
    IF sim >= SimilarityGate
    THEN detectSimilarContradiction(thought1, thought2)
    ELSE Absent

\* sim is what analyzeSemanticSimilarity(thought1, thought2) answered
detectContradiction(thought1, thought2, sim) ==
    IF sim > SimilarityGate
    THEN detectSimilarContradiction(thought1, thought2)
    ELSE Absent

\* The forEach over existingThoughts; sims[i] is the estimator's answer for
\* (new, existing[i])
collectContradictions(new, existing, sims) ==
    LET RECURSIVE Each(_)
        Each(i) ==
            IF i > Len(existing) THEN <<>>
            ELSE IF existing[i].isRevision
                     \/ existing[i].thoughtNumber = new.thoughtNumber
            THEN Each(i + 1)
            ELSE LET contradiction == detectContradiction(new, existing[i], sims[i])
                 IN (IF Truthy(contradiction)
                     THEN <<[thoughtNumber |-> existing[i].thoughtNumber,
                             explanation |-> Get(contradiction)]>>
                     ELSE <<>>) \o Each(i + 1)
    IN Each(1)

\* checkContradictions examining the prior thoughts for a revision too
checkContradictions_NoRevisionSkip(new, existing, sims) ==
    LET contradictions == collectContradictions(new, existing, sims)
    IN [hasContradictions |-> Len(contradictions) > 0, details |-> contradictions]

checkContradictions(new, existing, sims) ==
    IF new.isRevision
    THEN [hasContradictions |-> FALSE, details |-> <<>>]
    ELSE LET contradictions == collectContradictions(new, existing, sims)
         IN [hasContradictions |-> Len(contradictions) > 0,
             details |-> contradictions]

findConflictingAssumptions(t, otherThoughts) ==
    IF ~IsPresent(t.assumptions) THEN <<>>
    ELSE LET mine == Get(t.assumptions)
             RECURSIVE Inner(_, _, _)
             Inner(a, o, k) ==
                 IF a > Len(mine) THEN <<>>
                 ELSE IF o > Len(otherThoughts) THEN Inner(a + 1, 1, 1)
                 ELSE IF ~IsPresent(otherThoughts[o].assumptions)
                          \/ k > Len(Get(otherThoughts[o].assumptions))
                 THEN Inner(a, o + 1, 1)
                 ELSE LET otherAssumption == Get(otherThoughts[o].assumptions)[k]
                      IN (IF areAssumptionsConflicting(mine[a], otherAssumption)
                          THEN <<"\"" \o mine[a] \o "\" conflicts with \""
                                   \o otherAssumption \o "\" in thought "
                                   \o ToString(otherThoughts[o].thoughtNumber)>>
                          ELSE <<>>) \o Inner(a, o, k + 1)
         IN Inner(1, 1, 1)

\* analyzeAssumptionContradictions leaving revisions out of the comparison
analyzeAssumptionContradictions_SkipsRevisions(thoughts) ==
    LET RECURSIVE Each(_)
        Each(i) ==
            IF i > Len(thoughts) THEN <<>>
            ELSE IF ~IsPresent(thoughts[i].assumptions)
                     \/ Len(Get(thoughts[i].assumptions)) = 0
            THEN Each(i + 1)
            ELSE LET Other(t) == t.thoughtNumber # thoughts[i].thoughtNumber
                                     /\ ~t.isRevision
                     conflictingAssumptions ==
                         findConflictingAssumptions(thoughts[i], SelectSeq(thoughts, Other))
                 IN (IF Len(conflictingAssumptions) > 0
                     THEN <<[thoughtNumber |-> thoughts[i].thoughtNumber,
                             conflictingAssumptions |-> conflictingAssumptions]>>
                     ELSE <<>>) \o Each(i + 1)
    IN Each(1)

analyzeAssumptionContradictions(thoughts) ==
    LET RECURSIVE Each(_)
        Each(i) ==
            IF i > Len(thoughts) THEN <<>>
            ELSE IF ~IsPresent(thoughts[i].assumptions)
                     \/ Len(Get(thoughts[i].assumptions)) = 0
            THEN Each(i + 1)
            ELSE LET Other(t) == t.thoughtNumber # thoughts[i].thoughtNumber
                     conflictingAssumptions ==
                         findConflictingAssumptions(thoughts[i], SelectSeq(thoughts, Other))
                 IN (IF Len(conflictingAssumptions) > 0
                     THEN <<[thoughtNumber |-> thoughts[i].thoughtNumber,
                             conflictingAssumptions |-> conflictingAssumptions]>>
                     ELSE <<>>) \o Each(i + 1)
    IN Each(1)

-----------------------------------------------------------------------------
(* Arguments drawn by the ContradictionDetector specifications             *)

MaxThoughtNumber == 2
MaxExisting == 2
MaxNots == 2

\* answers of the estimator, in hundredths: at the gate and around it
SimilarityValues == {0, SimilarityGate, SimilarityGate + 1, 100}
ListSimilarityValues == {SimilarityGate, SimilarityGate + 1}

Classifications == {"hypothesis", "observation", "conclusion", "question", "solution"}

Thought(n, rev, profile) ==
    [thoughtNumber |-> n, isRevision |-> rev, thought |-> profile.thought,
     classification |-> profile.classification, assumptions |-> profile.assumptions]

\* What a thought says: classification?, text and assumptions?
ListProfiles ==
    { [classification |-> Present("hypothesis"), thought |-> "it works",
       assumptions |-> Absent],
      [classification |-> Present("conclusion"), thought |-> "it works",
       assumptions |-> Present(<<"x">>)],
      [classification |-> Present("conclusion"), thought |-> "It does NOT work",
       assumptions |-> Present(<<"not x">>)],
      [classification |-> Absent, thought |-> "it works",
       assumptions |-> Present(<<"Not X", "y">>)] }

\* The new thought: numbered 1, a revision or not, saying any of the profiles
NewThoughts == {Thought(1, rev, p) : rev \in BOOLEAN, p \in ListProfiles}

\* A thought of the list: any number; a revision says one profile, one with
\* assumptions, since checkContradictions skips it whatever it says
RevisionProfile ==
    CHOOSE p \in ListProfiles :
        p.classification = Present("conclusion") /\ p.assumptions = Present(<<"not x">>)

ListThoughts ==
    {Thought(n, FALSE, p) : n \in 1..MaxThoughtNumber, p \in ListProfiles}
        \cup {Thought(n, TRUE, RevisionProfile) : n \in 1..MaxThoughtNumber}

PairProfiles ==
    [classification : {Absent} \cup {Present(c) : c \in Classifications},
     thought : {"it works", "no it never works"},
     assumptions : {Absent, Present(<<"x">>), Present(<<"NOT x", "y">>)}]

SeqsUpTo(S, n) == UNION {[1..k -> S] : k \in 0..n}

RECURSIVE NotPrefixes(_)
NotPrefixes(k) ==
    IF k = 0 THEN {""}
    ELSE NotPrefixes(k - 1)
           \cup {p \o q : p \in {"not ", "NOT ", "Not "}, q \in NotPrefixes(k - 1)}

AssumptionTexts == {p \o b : p \in NotPrefixes(MaxNots), b \in {"x", "X", "y", ""}}

IdleMetadata == [keywords |-> <<>>, goals |-> <<>>]

-----------------------------------------------------------------------------
(* Specification Spec: the entry points that take a thought list           *)

Init ==
    /\ pc = "call"
    /\ newThought \in NewThoughts
    /\ existingThoughts \in SeqsUpTo(ListThoughts, MaxExisting)
    /\ similarity \in [1..Len(existingThoughts) -> ListSimilarityValues]
    /\ assumption1 = "" /\ assumption2 = ""
    /\ thought = "" /\ promptMetadata = IdleMetadata /\ prompt = ""
    /\ probabilities = <<>>
    /\ ret = NoRet
    /\ history = <<>>
    /\ promptContext = NewPromptContext

CheckContradictions ==
    /\ pc = "call"
    /\ pc' = "checkContradictions"
    /\ ret' = Returned("checkContradictions",
                       checkContradictions(newThought, existingThoughts, similarity))
    /\ UNCHANGED <<newThought, existingThoughts, similarity, assumption1,
                   assumption2, thought, promptMetadata, prompt, probabilities,
                   history, promptContext>>

AnalyzeAssumptionContradictions ==
    /\ pc = "call"
    /\ pc' = "analyzeAssumptionContradictions"
    /\ ret' = Returned("analyzeAssumptionContradictions",
                       analyzeAssumptionContradictions(existingThoughts))
    /\ UNCHANGED <<newThought, existingThoughts, similarity, assumption1,
                   assumption2, thought, promptMetadata, prompt, probabilities,
                   history, promptContext>>

Next == CheckContradictions \/ AnalyzeAssumptionContradictions

Spec == Init /\ [][Next]_vars

-----------------------------------------------------------------------------
(* Specification SpecPair: the checks detectContradiction applies to a     *)
(* pair (thought1 = newThought, thought2 = existingThoughts[1])            *)

InitPair ==
    /\ pc = "call"
    /\ newThought \in {Thought(1, FALSE, p) : p \in PairProfiles}
    /\ existingThoughts \in {<<Thought(2, FALSE, p)>> : p \in PairProfiles}
    /\ similarity \in [1..1 -> SimilarityValues]
    /\ assumption1 = "" /\ assumption2 = ""
    /\ thought = "" /\ promptMetadata = IdleMetadata /\ prompt = ""
    /\ probabilities = <<>>
    /\ ret = NoRet
    /\ history = <<>>
    /\ promptContext = NewPromptContext

HasOpposingClassifications ==
    /\ pc = "call"
    /\ pc' = "hasOpposingClassifications"
    /\ ret' = Returned("hasOpposingClassifications",
                       hasOpposingClassifications(newThought, existingThoughts[1]))
    /\ UNCHANGED <<newThought, existingThoughts, similarity, assumption1,
                   assumption2, thought, promptMetadata, prompt, probabilities,
                   history, promptContext>>

HasConflictingConclusions ==
    /\ pc = "call"
    /\ pc' = "hasConflictingConclusions"
    /\ ret' = Returned("hasConflictingConclusions",
                       hasConflictingConclusions(newThought, existingThoughts[1]))
    /\ UNCHANGED <<newThought, existingThoughts, similarity, assumption1,
                   assumption2, thought, promptMetadata, prompt, probabilities,
                   history, promptContext>>

DetectContradiction ==
    /\ pc = "call"
    /\ pc' = "detectContradiction"
    /\ ret' = Returned("detectContradiction",
                       detectContradiction(newThought, existingThoughts[1], similarity[1]))
    /\ UNCHANGED <<newThought, existingThoughts, similarity, assumption1,
                   assumption2, thought, promptMetadata, prompt, probabilities,
                   history, promptContext>>

NextPair == HasOpposingClassifications \/ HasConflictingConclusions \/ DetectContradiction

SpecPair == InitPair /\ [][NextPair]_vars

-----------------------------------------------------------------------------
(* Specification SpecAssumptions: areAssumptionsConflicting on two strings *)

InitAssumptions ==
    /\ pc = "call"
    /\ assumption1 \in AssumptionTexts
    /\ assumption2 \in AssumptionTexts
    /\ newThought = Thought(1, FALSE, CHOOSE p \in ListProfiles : ~IsPresent(p.assumptions))
    /\ existingThoughts = <<>> /\ similarity = <<>>
    /\ thought = "" /\ promptMetadata = IdleMetadata /\ prompt = ""
    /\ probabilities = <<>>
    /\ ret = NoRet
    /\ history = <<>>
    /\ promptContext = NewPromptContext

AreAssumptionsConflicting ==
    /\ pc = "call"
    /\ pc' = "areAssumptionsConflicting"
    /\ ret' = Returned("areAssumptionsConflicting",
                       areAssumptionsConflicting(assumption1, assumption2))
    /\ UNCHANGED <<newThought, existingThoughts, similarity, assumption1,
                   assumption2, thought, promptMetadata, prompt, probabilities,
                   history, promptContext>>

NextAssumptions == AreAssumptionsConflicting

SpecAssumptions == InitAssumptions /\ [][NextAssumptions]_vars

-----------------------------------------------------------------------------
(* Properties of checkContradictions                                       *)

\* A prior thought that checkContradictions examines and that would be
\* reported if the estimator's answer passed the gate
WouldFire(i) ==
    /\ ~existingThoughts[i].isRevision
    /\ existingThoughts[i].thoughtNumber # newThought.thoughtNumber
    /\ \/ hasOpposingClassifications(newThought, existingThoughts[i])
       \/ hasConflictingConclusions(newThought, existingThoughts[i])
       \/ Truthy(checkAssumptionConflicts(newThought, existingThoughts[i]))

\* C1: checkContradictions of a revision returns hasContradictions = false
\* and no details, whatever the prior thoughts and their similarity are.
C1_RevisionSkipped ==
    (pc = "checkContradictions" /\ newThought.isRevision)
        => /\ ret.outcome = "returned"
           /\ ret.value.hasContradictions = FALSE
           /\ ret.value.details = <<>>

C1_Witness ==
    /\ pc = "checkContradictions"
    /\ newThought.isRevision
    /\ \E i \in 1..Len(existingThoughts) :
           similarity[i] > SimilarityGate /\ WouldFire(i)
    /\ ret.value.details = <<>>

\* C2: a prior thought whose similarity is <= 0.5 (0.5 included) gets no
\* detail record: every detail carries the number of a prior thought whose
\* similarity is above 0.5, and there are no more details than such thoughts.
C2_GateIsStrict ==
    pc = "checkContradictions"
        => LET above == {i \in 1..Len(existingThoughts) : similarity[i] > SimilarityGate}
               details == ret.value.details
           IN /\ Len(details) <= Cardinality(above)
              /\ \A d \in 1..Len(details) :
                     \E i \in above :
                         details[d].thoughtNumber = existingThoughts[i].thoughtNumber

C2_Witness ==
    /\ pc = "checkContradictions"
    /\ ~newThought.isRevision
    /\ Len(existingThoughts) = 2
    /\ similarity[1] = SimilarityGate /\ similarity[2] = SimilarityGate
    /\ WouldFire(1) /\ hasOpposingClassifications(newThought, existingThoughts[1])
    /\ WouldFire(2) /\ Truthy(checkAssumptionConflicts(newThought, existingThoughts[2]))
    /\ ret.value.details = <<>>

\* C6 (as claimed): a thought list holding two thoughts with the same
\* thoughtNumber makes checkContradictions and
\* analyzeAssumptionContradictions signal an invalid argument; they do not
\* return an ordinary result.
HasDuplicateThoughtNumber(thoughts) ==
    \E i, j \in 1..Len(thoughts) :
        i # j /\ thoughts[i].thoughtNumber = thoughts[j].thoughtNumber

C6_DuplicateSignalled ==
    (pc \in {"checkContradictions", "analyzeAssumptionContradictions"}
        /\ HasDuplicateThoughtNumber(existingThoughts))
        => ret.outcome = "invalid-argument"

-----------------------------------------------------------------------------
(* Properties of the pairwise checks                                       *)

OpposingClassificationPairs ==
    {{"hypothesis", "conclusion"}, {"question", "solution"}, {"observation", "conclusion"}}

\* C3: hasOpposingClassifications(A,B) = hasOpposingClassifications(B,A), and
\* it is true exactly when both classifications are present and form one of
\* the three opposing unordered pairs.
C3_OppositionSymmetric ==
    pc = "hasOpposingClassifications"
        => LET c1 == newThought.classification
               c2 == existingThoughts[1].classification
           IN /\ ret.value = hasOpposingClassifications(existingThoughts[1], newThought)
              /\ ret.value = (/\ IsPresent(c1) /\ IsPresent(c2)
                              /\ {Get(c1), Get(c2)} \in OpposingClassificationPairs)

C3_Witness ==
    /\ pc = "hasOpposingClassifications"
    /\ newThought.classification = Present("conclusion")
    /\ existingThoughts[1].classification = Present("observation")
    /\ ret.value = TRUE

-----------------------------------------------------------------------------
(* Properties of areAssumptionsConflicting                                 *)

\* a is "not " (in any letter case) followed by x (in any letter case)
IsNotOf(a, x) ==
    /\ Len(a) = Len(x) + 4
    /\ ToLowerCase(SubSeq(a, 1, 4)) = "not "
    /\ ToLowerCase(SubSeq(a, 5, Len(a))) = ToLowerCase(x)

BeginsWithNot(a) == Len(a) >= 4 /\ ToLowerCase(SubSeq(a, 1, 4)) = "not "

\* C4 (as claimed): "not X" and X conflict in either argument order, for
\* every X, also an X that itself begins with "not ".
C4_NotXConflictsWithAnyX ==
    (pc = "areAssumptionsConflicting"
        /\ (IsNotOf(assumption1, assumption2) \/ IsNotOf(assumption2, assumption1)))
        => ret.value = TRUE

\* C4 (amended): "not X" and X conflict in either argument order, for every
\* X that does not itself begin with "not ".
C4_NotXConflictsWithPlainX ==
    (pc = "areAssumptionsConflicting"
        /\ \/ IsNotOf(assumption1, assumption2) /\ ~BeginsWithNot(assumption2)
           \/ IsNotOf(assumption2, assumption1) /\ ~BeginsWithNot(assumption1))
        => ret.value = TRUE

C4_Witness ==
    /\ pc = "areAssumptionsConflicting"
    /\ assumption1 = "x"
    /\ assumption2 = "NOT X"
    /\ ret.value = TRUE

\* C5: two assumptions never conflict when both or neither begin with
\* "not "; in particular X against X and "not X" against "not X" do not
\* conflict, also when the copies differ in letter case.
C5_SamePolarityNeverConflicts ==
    (pc = "areAssumptionsConflicting"
        /\ BeginsWithNot(assumption1) = BeginsWithNot(assumption2))
        => ret.value = FALSE

C5_Witness ==
    /\ pc = "areAssumptionsConflicting"
    /\ assumption1 = "Not x"
    /\ assumption2 = "not X"
    /\ ret.value = FALSE

-----------------------------------------------------------------------------
(* PromptAnalyzer: analyzePrompt and the extractors it calls               *)

\* s.indexOf(sub), 0-based, -1 when absent
IndexOf(s, sub) ==
    IF Includes(s, sub)
    THEN (CHOOSE i \in 1..(Len(s) - Len(sub) + 1) :
              /\ SubSeq(s, i, i + Len(sub) - 1) = sub
              /\ \A j \in 1..(i - 1) : SubSeq(s, j, j + Len(sub) - 1) # sub) - 1
    ELSE -1

NonEmpty(s) == Len(s) > 0

IncludesAny(s, indicators) == \E i \in 1..Len(indicators) : Includes(s, indicators[i])

\* [...new Set(seq)]: first occurrences, in order
Dedup(seq) ==
    AtIndices(seq, {i \in 1..Len(seq) : \A j \in 1..(i - 1) : seq[j] # seq[i]})

\* Array.prototype.sort((a, b) => key(b) - key(a)): descending, and stable,
\* so an element is preceded by the larger ones and by the equal ones that
\* came before it
\* keys[i] is the key of seq[i]
SortDescending(seq, keys) ==
    LET Place(i) ==
            1 + Cardinality({j \in 1..Len(seq) :
                                \/ keys[j] > keys[i]
                                \/ keys[j] = keys[i] /\ j < i})
    IN [k \in 1..Len(seq) |-> seq[CHOOSE i \in 1..Len(seq) : Place(i) = k]]

SentenceEnds == {".", "!", "?"}

\* prompt.split(/[.!?]+/).map(s => s.trim()).filter(s => s.length > 0)
Sentences(text) ==
    LET pieces == SplitRuns(text, SentenceEnds)
    IN SelectSeq([i \in 1..Len(pieces) |-> Trim(pieces[i])], NonEmpty)

goalIndicators ==
    <<"goal is", "objective is", "aim is", "purpose is", "trying to",
      "want to", "need to", "would like to", "goal:", "objective:">>

\* extractGoals pushing the first piece of the split without looking whether
\* any sentence was found
extractGoals_UnguardedFallback(text) ==
    LET sentences == Sentences(text)
        IsGoal(sentence) == IncludesAny(ToLowerCase(sentence), goalIndicators)
        goals == SelectSeq(sentences, IsGoal)
    IN IF Len(goals) = 0
       THEN <<Trim(SplitRuns(text, SentenceEnds)[1])>>
       ELSE goals

extractGoals(text) ==
    LET sentences == Sentences(text)
        IsGoal(sentence) == IncludesAny(ToLowerCase(sentence), goalIndicators)
        goals == SelectSeq(sentences, IsGoal)
    IN IF Len(goals) = 0 /\ Len(sentences) > 0
       THEN <<sentences[1]>>
       ELSE goals

constraintIndicators ==
    <<"must", "should", "need to", "have to", "required",
      "necessary", "important", "essential", "critical",
      "cannot", "can't", "don't", "shouldn't", "mustn't">>

extractConstraints(text) ==
    LET IsConstraint(sentence) ==
            IncludesAny(ToLowerCase(sentence), constraintIndicators)
    IN SelectSeq(Sentences(text), IsConstraint)

\* Object.entries(domainKeywords), in the order the literal lists them
domainKeywords ==
    << <<"programming", <<"code", "programming", "software", "development",
                          "algorithm", "function">> >>,
       <<"math", <<"math", "calculation", "formula", "equation", "numerical">> >>,
       <<"science", <<"science", "scientific", "experiment", "hypothesis", "theory">> >>,
       <<"business", <<"business", "market", "strategy", "company", "product",
                       "service">> >>,
       <<"writing", <<"write", "essay", "article", "blog", "content", "story">> >>,
       <<"design", <<"design", "layout", "visual", "UI", "UX", "interface">> >>,
       <<"data", <<"data", "analysis", "statistics", "dataset", "visualization">> >> >>

extractDomains(text) ==
    LET promptLower == ToLowerCase(text)
        Matches(entry) == IncludesAny(promptLower, entry[2])
        found == SelectSeq(domainKeywords, Matches)
    IN [i \in 1..Len(found) |-> found[i][1]]

formatIndicators ==
    <<"format:", "in the form of", "as a", "output as", "result as",
      "in markdown", "in json", "in html", "in csv", "in table">>

\* returns the format description, or undefined (Absent)
extractOutputFormat(text) ==
    LET promptLower == ToLowerCase(text)
        found == {i \in 1..Len(formatIndicators) :
                     IndexOf(promptLower, formatIndicators[i]) # -1}
    IN IF found = {} THEN Absent
       ELSE LET i == CHOOSE k \in found : \A m \in found : k <= m
                index == IndexOf(promptLower, formatIndicators[i])
                afterIndicator ==
                    Trim(SubSeq(text, index + Len(formatIndicators[i]) + 1, Len(text)))
            IN Present(Trim(SplitEach(afterIndicator, SentenceEnds)[1]))

highPriorityIndicators ==
    <<"urgent", "immediately", "asap", "critical", "high priority",
      "as soon as possible", "emergency", "deadline">>

mediumPriorityIndicators == <<"important", "soon", "timely", "needed", "significant">>

determinePriority(text) ==
    LET promptLower == ToLowerCase(text)
    IN IF IncludesAny(promptLower, highPriorityIndicators) THEN "high"
       ELSE IF IncludesAny(promptLower, mediumPriorityIndicators) THEN "medium"
       ELSE "low"

complexityIndicators ==
    <<"complex", "complicated", "difficult", "challenging", "advanced",
      "sophisticated", "intricate", "elaborate", "comprehensive">>

ComplexWordCount == 100
MediumWordCount == 30

estimateComplexity(text) ==
    LET wordCount == Len(SplitRuns(text, SpaceChars))
    IN IF IncludesAny(ToLowerCase(text), complexityIndicators) THEN "complex"
       ELSE IF wordCount > ComplexWordCount THEN "complex"
       ELSE IF wordCount > MediumWordCount THEN "medium"
       ELSE "simple"

stopWords ==
    {"a", "an", "the", "and", "or", "but", "in", "on", "at", "to", "for",
     "with", "by", "about", "as"}

MinWordLength == 3

\* text.toLowerCase().replace(/[^\w\s]/g, '').split(/\s+/)
\*     .filter(word => word.length > 3)
LongWords(text) ==
    LET Long(word) == Len(word) > MinWordLength
    IN SelectSeq(SplitRuns(StripPunctuation(ToLowerCase(text)), SpaceChars), Long)

DigitValue(c) == CHOOSE d \in 0..9 : ToString(d) = c

\* a < b as numbers, for digit strings without a leading zero
DigitsLess(a, b) ==
    \/ Len(a) < Len(b)
    \/ /\ Len(a) = Len(b)
       /\ \E i \in 1..Len(a) :
              /\ SubSeq(a, 1, i - 1) = SubSeq(b, 1, i - 1)
              /\ DigitValue(CharAt(a, i)) < DigitValue(CharAt(b, i))

\* 2^32 - 1, which is not an array index
NotAnIndex == "4294967295"

\* A property key that JavaScript treats as an integer index: Object.entries
\* lists such keys first, in ascending numeric order
IsIntegerKey(key) ==
    /\ Len(key) > 0
    /\ \A i \in 1..Len(key) : CharAt(key, i) \in DigitChars
    /\ (Len(key) > 1 => CharAt(key, 1) # "0")
    /\ DigitsLess(key, NotAnIndex)

\* Object.entries(wordCounts) as [word, count] pairs, for the keys inserted
\* in the order of words
ObjectEntries(words) ==
    LET keys == Dedup(words)
        Count(word) == Cardinality({i \in 1..Len(words) : words[i] = word})
        integerKeys == SelectSeq(keys, IsIntegerKey)
        Smaller(key) ==
            Cardinality({i \in 1..Len(integerKeys) : DigitsLess(integerKeys[i], key)})
        IsOther(key) == ~IsIntegerKey(key)
        ordered ==
            SortDescending(integerKeys,
                           [i \in 1..Len(integerKeys) |-> 0 - Smaller(integerKeys[i])])
                \o SelectSeq(keys, IsOther)
    IN [i \in 1..Len(ordered) |-> <<ordered[i], Count(ordered[i])>>]

KeywordPoolSize == 10

extractKeywords(text) ==
    LET NotStopWord(word) == word \notin stopWords
        words == SelectSeq(LongWords(text), NotStopWord)
        entries == ObjectEntries(words)
        top == SliceTo(SortDescending(entries, [i \in 1..Len(entries) |-> entries[i][2]]),
                       KeywordPoolSize)
    IN [i \in 1..Len(top) |-> top[i][1]]

extractEntities(text) ==
    LET raw == SplitRuns(text, SpaceChars)
        words == [i \in 1..Len(raw) |-> StripNonWord(raw[i])]
        IsEntity(i) ==
            /\ Len(words[i]) > 0
            /\ CharAt(words[i], 1) = ToUpperChar(CharAt(words[i], 1))
            /\ CharAt(words[i], 1) # ToLowerCase(CharAt(words[i], 1))
            /\ i > 1
    IN Dedup(AtIndices(words, {i \in 1..Len(words) : IsEntity(i)}))

creativeIndicators == <<"create", "design", "generate", "write", "compose", "imagine", "story">>
analyticalIndicators == <<"analyze", "evaluate", "assess", "compare", "contrast", "examine">>
informationalIndicators ==
    <<"explain", "describe", "what is", "how to", "information about", "tell me about">>
technicalIndicators == <<"code", "program", "implement", "function", "algorithm", "debug", "fix">>

determineTaskType(text) ==
    LET promptLower == ToLowerCase(text)
        Matches(indicators) ==
            Cardinality({i \in 1..Len(indicators) : Includes(promptLower, indicators[i])})
        unsorted ==
            <<[type |-> "creative", count |-> Matches(creativeIndicators)],
              [type |-> "analytical", count |-> Matches(analyticalIndicators)],
              [type |-> "informational", count |-> Matches(informationalIndicators)],
              [type |-> "technical", count |-> Matches(technicalIndicators)]>>
        counts == SortDescending(unsorted, [i \in 1..4 |-> unsorted[i].count])
    IN IF counts[1].count > 0 /\ counts[1].count > counts[2].count
       THEN counts[1].type
       ELSE "mixed"

MaxGoals == 2
MaxConstraints == 2
MaxDomains == 2
MaxKeywords == 5
MaxEntities == 3

\* analyzePrompt returning every domain found
analyzePrompt_DomainsUncapped(text) ==
    [originalPrompt |-> text,
     goals |-> SliceTo(extractGoals(text), MaxGoals),
     constraints |-> SliceTo(extractConstraints(text), MaxConstraints),
     domains |-> extractDomains(text),
     expectedOutputFormat |-> extractOutputFormat(text),
     priority |-> determinePriority(text),
     complexity |-> estimateComplexity(text),
     keywords |-> SliceTo(extractKeywords(text), MaxKeywords),
     entities |-> SliceTo(extractEntities(text), MaxEntities),
     taskType |-> determineTaskType(text)]

\* The sentiment and intent fields of the metadata are not modelled; no
\* property below reads them
analyzePrompt(text) ==
    [originalPrompt |-> text,
     goals |-> SliceTo(extractGoals(text), MaxGoals),
     constraints |-> SliceTo(extractConstraints(text), MaxConstraints),
     domains |-> SliceTo(extractDomains(text), MaxDomains),
     expectedOutputFormat |-> extractOutputFormat(text),
     priority |-> determinePriority(text),
     complexity |-> estimateComplexity(text),
     keywords |-> SliceTo(extractKeywords(text), MaxKeywords),
     entities |-> SliceTo(extractEntities(text), MaxEntities),
     taskType |-> determineTaskType(text)]

-----------------------------------------------------------------------------
(* PromptAnalyzer: alignment of a thought with the prompt metadata.        *)
(* A score that is not yet rounded is the exact fraction <<n, d>> = n/d,   *)
(* d > 0.  The doubles of the source agree with it after Math.round for    *)
(* the goals drawn here: a fraction falls on a rounding boundary only when *)
(* the goal's keyword count is a multiple of 4, and then every             *)
(* intermediate value is a dyadic number that a double holds exactly.      *)

NeutralScore == 5
MaxScore == 10
KeywordWeight == 2
DriftThreshold == 4

RatLess(a, b) == a[1] * b[2] < b[1] * a[2]
RatMax(a, b) == IF RatLess(a, b) THEN b ELSE a
\* (a + b) / 2
RatMean(a, b) == <<a[1] * b[2] + b[1] * a[2], 2 * a[2] * b[2]>>
\* Math.round of a non-negative fraction: halves round up
MathRound(a) == (2 * a[1] + a[2]) \div (2 * a[2])

\* the number of entries of keywords that thoughtLower includes
CountMatches(thoughtLower, keywords) ==
    Cardinality({i \in 1..Len(keywords) : Includes(thoughtLower, keywords[i])})

\* keywordScore counting one point for a matched keyword
keywordScore_WeightOne(thoughtLower, keywords) ==
    LET keywordMatches == CountMatches(thoughtLower, keywords)
    IN IF keywordMatches < MaxScore THEN keywordMatches ELSE MaxScore

\* Math.min(10, keywordMatches * 2)
keywordScore(thoughtLower, keywords) ==
    LET keywordMatches == CountMatches(thoughtLower, keywords)
    IN IF keywordMatches * KeywordWeight < MaxScore
       THEN keywordMatches * KeywordWeight ELSE MaxScore

\* goalMatchPercentage * 10 for one goal
goalMatchScore(thoughtLower, goal) ==
    LET goalKeywords == LongWords(goal)
        goalKeywordMatches == CountMatches(thoughtLower, goalKeywords)
    IN IF Len(goalKeywords) > 0
       THEN <<goalKeywordMatches * 10, Len(goalKeywords)>>
       ELSE <<0, 1>>

\* the maximum of goalMatchPercentage * 10 over the goals, from 0
goalAlignmentScore(thoughtLower, goals) ==
    LET RECURSIVE Upto(_)
        Upto(n) == IF n = 0 THEN <<0, 1>>
                   ELSE RatMax(Upto(n - 1), goalMatchScore(thoughtLower, goals[n]))
    IN Upto(Len(goals))

\* calculateAlignmentScore adding the goal score instead of averaging it in
calculateAlignmentScore_SumNotMean(text, metadata) ==
    LET thoughtLower == ToLowerCase(text)
        score == RatMean(<<NeutralScore, 1>>,
                         <<keywordScore(thoughtLower, metadata.keywords), 1>>)
        goalScore == goalAlignmentScore(thoughtLower, metadata.goals)
    IN MathRound(<<score[1] * goalScore[2] + goalScore[1] * score[2],
                   score[2] * goalScore[2]>>)

calculateAlignmentScore(text, metadata) ==
    LET thoughtLower == ToLowerCase(text)
        score == RatMean(<<NeutralScore, 1>>,
                         <<keywordScore(thoughtLower, metadata.keywords), 1>>)
    IN MathRound(RatMean(score, goalAlignmentScore(thoughtLower, metadata.goals)))

\* promptRelevance[`goal_${index}`] of analyzeThoughtAlignment
goalRelevance(text, goal) ==
    LET goalKeywords == LongWords(goal)
        goalKeywordMatches == CountMatches(ToLowerCase(text), goalKeywords)
    IN MathRound(IF Len(goalKeywords) > 0
                 THEN <<goalKeywordMatches * 10, Len(goalKeywords)>>
                 ELSE <<NeutralScore, 1>>)

\* `${goals[0]}` prints undefined when there is no goal
FirstGoalText(goals) == IF Len(goals) > 0 THEN goals[1] ELSE "undefined"

analyzeThoughtAlignment(text, metadata) ==
    LET promptAlignment == calculateAlignmentScore(text, metadata)
        promptRelevance ==
            [i \in 1..Len(metadata.goals) |-> goalRelevance(text, metadata.goals[i])]
    IN IF promptAlignment < DriftThreshold
       THEN [promptAlignment |-> promptAlignment,
             promptRelevance |-> promptRelevance,
             driftWarning |-> Present("Low alignment with prompt ("
                                          \o ToString(promptAlignment) \o "/10)"),
             suggestedCorrections |->
                 Present(<<"Focus more on the main goals: "
                             \o FirstGoalText(metadata.goals)>>)]
       ELSE [promptAlignment |-> promptAlignment,
             promptRelevance |-> promptRelevance,
             driftWarning |-> Absent,
             suggestedCorrections |-> Absent]

\* goalKeywordMatches < goalKeywords.length * 0.3
GoalNeglected(text, goal) ==
    LET goalKeywords == LongWords(goal)
    IN 10 * CountMatches(ToLowerCase(text), goalKeywords) < 3 * Len(goalKeywords)

\* checkForTopicDrift reporting drift at a score of 4 too
checkForTopicDrift_ThresholdInclusive(text, metadata) ==
    LET alignmentScore == calculateAlignmentScore(text, metadata)
        Neglected(goal) == GoalNeglected(text, goal)
        neglected == SelectSeq(metadata.goals, Neglected)
        corrections ==
            [i \in 1..Len(neglected) |->
                "Consider addressing the goal: \"" \o neglected[i] \o "\""]
    IN IF alignmentScore <= DriftThreshold
       THEN [hasDrift |-> TRUE,
             warning |-> Present("This thought appears to drift from the original prompt (alignment score: "
                                     \o ToString(alignmentScore) \o "/10)"),
             corrections |->
                 Present(IF Len(corrections) > 0 THEN corrections
                         ELSE <<"Try to align more closely with the original prompt goals">>)]
       ELSE [hasDrift |-> FALSE, warning |-> Absent, corrections |-> Absent]

checkForTopicDrift(text, metadata) ==
    LET alignmentScore == calculateAlignmentScore(text, metadata)
        Neglected(goal) == GoalNeglected(text, goal)
        neglected == SelectSeq(metadata.goals, Neglected)
        corrections ==
            [i \in 1..Len(neglected) |->
                "Consider addressing the goal: \"" \o neglected[i] \o "\""]
    IN IF alignmentScore < DriftThreshold
       THEN [hasDrift |-> TRUE,
             warning |-> Present("This thought appears to drift from the original prompt (alignment score: "
                                     \o ToString(alignmentScore) \o "/10)"),
             corrections |->
                 Present(IF Len(corrections) > 0 THEN corrections
                         ELSE <<"Try to align more closely with the original prompt goals">>)]
       ELSE [hasDrift |-> FALSE, warning |-> Absent, corrections |-> Absent]

-----------------------------------------------------------------------------
(* Arguments drawn by the PromptAnalyzer specifications                    *)

MaxSentences == 3
MaxMetadataKeywords == 6
MaxMetadataGoals == 2

PromptSentences ==
    { "I want to write Code, it should run. ",
      "You must test the Data Set! ",
      "We need to design a Math formula. ",
      "Explain the complex Market strategy soon?! ",
      "fix 2024 bugs, fix 1999 bugs, as a Table. ",
      "it is so so so so so so so so so so. " }

RECURSIVE Concat(_)
Concat(seq) == IF seq = <<>> THEN "" ELSE Head(seq) \o Concat(Tail(seq))

Prompts == {Concat(ss) : ss \in SeqsUpTo(PromptSentences, MaxSentences)}

MetadataKeywordList == <<"code", "data", "test", "math", "plan", "tool", "write", "first">>

MetadataKeywords ==
    {SubSeq(MetadataKeywordList, 1, k) :
        k \in 0..(IF MaxMetadataKeywords < Len(MetadataKeywordList)
                  THEN MaxMetadataKeywords ELSE Len(MetadataKeywordList))}

GoalTexts == {"Write code", "Do it", "Test the data!", "plan math tool code"}

ThoughtTexts ==
    { "",
      "we write CODE",
      "nothing relevant here",
      "Test data first",
      "code data test math",
      "plan first: write code, data, test, math, tool" }

Metadatas ==
    [keywords : MetadataKeywords, goals : SeqsUpTo(GoalTexts, MaxMetadataGoals)]

-----------------------------------------------------------------------------
(* Specification SpecPrompt: analyzePrompt on a prompt                     *)

InitPrompt ==
    /\ pc = "call"
    /\ prompt \in Prompts
    /\ newThought = Thought(1, FALSE, CHOOSE p \in ListProfiles : ~IsPresent(p.assumptions))
    /\ existingThoughts = <<>> /\ similarity = <<>>
    /\ assumption1 = "" /\ assumption2 = ""
    /\ thought = "" /\ promptMetadata = IdleMetadata
    /\ probabilities = <<>>
    /\ ret = NoRet
    /\ history = <<>>
    /\ promptContext = NewPromptContext

AnalyzePrompt ==
    /\ pc = "call"
    /\ pc' = "analyzePrompt"
    /\ ret' = Returned("analyzePrompt", analyzePrompt(prompt))
    /\ UNCHANGED <<newThought, existingThoughts, similarity, assumption1,
                   assumption2, thought, promptMetadata, prompt, probabilities,
                   history, promptContext>>

NextPrompt == AnalyzePrompt

SpecPrompt == InitPrompt /\ [][NextPrompt]_vars

-----------------------------------------------------------------------------
(* Specification SpecAlignment: the alignment entry points on a thought    *)
(* text and a metadata                                                     *)

InitAlignment ==
    /\ pc = "call"
    /\ thought \in ThoughtTexts
    /\ promptMetadata \in Metadatas
    /\ newThought = Thought(1, FALSE, CHOOSE p \in ListProfiles : ~IsPresent(p.assumptions))
    /\ existingThoughts = <<>> /\ similarity = <<>>
    /\ assumption1 = "" /\ assumption2 = ""
    /\ prompt = ""
    /\ probabilities = <<>>
    /\ ret = NoRet
    /\ history = <<>>
    /\ promptContext = NewPromptContext

CalculateAlignmentScore ==
    /\ pc = "call"
    /\ pc' = "calculateAlignmentScore"
    /\ ret' = Returned("calculateAlignmentScore",
                       calculateAlignmentScore(thought, promptMetadata))
    /\ UNCHANGED <<newThought, existingThoughts, similarity, assumption1,
                   assumption2, thought, promptMetadata, prompt, probabilities,
                   history, promptContext>>

AnalyzeThoughtAlignment ==
    /\ pc = "call"
    /\ pc' = "analyzeThoughtAlignment"
    /\ ret' = Returned("analyzeThoughtAlignment",
                       analyzeThoughtAlignment(thought, promptMetadata))
    /\ UNCHANGED <<newThought, existingThoughts, similarity, assumption1,
                   assumption2, thought, promptMetadata, prompt, probabilities,
                   history, promptContext>>

CheckForTopicDrift ==
    /\ pc = "call"
    /\ pc' = "checkForTopicDrift"
    /\ ret' = Returned("checkForTopicDrift",
                       checkForTopicDrift(thought, promptMetadata))
    /\ UNCHANGED <<newThought, existingThoughts, similarity, assumption1,
                   assumption2, thought, promptMetadata, prompt, probabilities,
                   history, promptContext>>

NextAlignment == CalculateAlignmentScore \/ AnalyzeThoughtAlignment \/ CheckForTopicDrift

SpecAlignment == InitAlignment /\ [][NextAlignment]_vars

-----------------------------------------------------------------------------
(* Properties of the alignment score                                       *)

\* the alignment score a completed alignment call reports
ReportedAlignment ==
    IF pc = "analyzeThoughtAlignment" THEN ret.value.promptAlignment ELSE ret.value

\* C7: the alignment score of calculateAlignmentScore, and promptAlignment of
\* analyzeThoughtAlignment, is an integer in [0,10] for every thought text
\* and metadata, also without keywords, without goals, or with goals that
\* have no word longer than 3 characters.
C7_AlignmentInRange ==
    pc \in {"calculateAlignmentScore", "analyzeThoughtAlignment"}
        => ReportedAlignment \in 0..MaxScore

C7_Witness ==
    /\ pc = "analyzeThoughtAlignment"
    /\ promptMetadata.keywords = <<>>
    /\ promptMetadata.goals = <<"Do it">>
    /\ LongWords("Do it") = <<>>
    /\ ret.value.promptAlignment = 1

\* the thought contains every metadata keyword and every keyword of the
\* single goal
FullyCovered ==
    /\ Len(promptMetadata.goals) = 1
    /\ \A i \in 1..Len(promptMetadata.keywords) :
           Includes(ToLowerCase(thought), promptMetadata.keywords[i])
    /\ \A w \in Range(LongWords(promptMetadata.goals[1])) :
           Includes(ToLowerCase(thought), w)

\* C8 (as claimed): with one goal, a thought that contains every metadata
\* keyword and every keyword of the goal scores 9, for every number of
\* metadata keywords.
C8_FullCoverageScoresNine ==
    (pc = "calculateAlignmentScore" /\ FullyCovered) => ret.value = 9

\* C8 (amended): such a thought scores 9 when the metadata has at least 5
\* keywords and the goal has a word longer than 3 characters; with k < 5
\* keywords it scores 6, 7, 7, 8, 8 for k = 0, 1, 2, 3, 4.
C8_FullCoverageScore ==
    (pc = "calculateAlignmentScore" /\ FullyCovered
        /\ LongWords(promptMetadata.goals[1]) # <<>>)
        => LET k == Len(promptMetadata.keywords)
           IN ret.value = (IF k >= 5 THEN 9 ELSE <<6, 7, 7, 8, 8>>[k + 1])

C8_Witness ==
    /\ pc = "calculateAlignmentScore"
    /\ FullyCovered
    /\ Len(promptMetadata.keywords) = 5
    /\ LongWords(promptMetadata.goals[1]) # <<>>
    /\ ret.value = 9

-----------------------------------------------------------------------------
(* Properties of analyzePrompt                                             *)

\* C9: analyzePrompt returns at most 2 goals, 2 constraints and 2 domains, at
\* most 5 keywords and 3 entities, and taskType, complexity and priority
\* within their enumerations.
C9_MetadataWithinCaps ==
    pc = "analyzePrompt"
        => /\ Len(ret.value.goals) <= 2
           /\ Len(ret.value.constraints) <= 2
           /\ Len(ret.value.domains) <= 2
           /\ Len(ret.value.keywords) <= 5
           /\ Len(ret.value.entities) <= 3
           /\ ret.value.taskType
                  \in {"creative", "analytical", "informational", "technical", "mixed"}
           /\ ret.value.complexity \in {"simple", "medium", "complex"}
           /\ ret.value.priority \in {"low", "medium", "high"}

\* every list is cut by its cap
C9_Witness ==
    /\ pc = "analyzePrompt"
    /\ Len(extractGoals(prompt)) > 2
    /\ Len(extractConstraints(prompt)) > 2
    /\ Len(extractDomains(prompt)) > 2
    /\ Len(extractKeywords(prompt)) > 5
    /\ Len(extractEntities(prompt)) > 3
    /\ Len(ret.value.goals) = 2
    /\ Len(ret.value.domains) = 2
    /\ Len(ret.value.keywords) = 5
    /\ Len(ret.value.entities) = 3

\* C10: analyzePrompt("") returns normally, with empty goals, constraints,
\* domains, keywords and entities and complexity simple.
C10_EmptyPrompt ==
    (pc = "analyzePrompt" /\ prompt = "")
        => /\ ret.outcome = "returned"
           /\ ret.value.goals = <<>>
           /\ ret.value.constraints = <<>>
           /\ ret.value.domains = <<>>
           /\ ret.value.keywords = <<>>
           /\ ret.value.entities = <<>>
           /\ ret.value.complexity = "simple"

C10_Witness ==
    /\ pc = "analyzePrompt"
    /\ prompt = ""
    /\ ret.value.originalPrompt = ""
    /\ ret.value.goals = <<>>

-----------------------------------------------------------------------------
(* ContradictionDetector: a thought against the prompt's goals and         *)
(* constraints                                                             *)

promptNegationWords ==
    {"not", "never", "no", "cannot", "don't", "doesn't", "won't", "shouldn't"}

MinPhraseLength == 4
NegationWindow == 3
MinSubjectLength == 3

oppositePairs ==
    << <<"increase", "decrease">>, <<"more", "less">>, <<"high", "low">>,
       <<"good", "bad">>, <<"positive", "negative">>, <<"include", "exclude">>,
       <<"allow", "prevent">>, <<"enable", "disable">>, <<"start", "stop">>,
       <<"begin", "end">>, <<"create", "destroy">>, <<"add", "remove">>,
       <<"accept", "reject">> >>

\* s.split(/\s+/)
Words(s) == SplitRuns(s, SpaceChars)

\* The element of a one-element set.  TLC evaluates the definition of a LET
\* and the argument of an operator wherever it is used; a value that is used
\* many times is bound by x \in {e} instead, which evaluates e once.
Only(S) == CHOOSE r \in S : TRUE

\* The sequence with its entries computed: TLC keeps [i \in 1..n |-> e] as
\* a rule and applies the rule at every use of an entry.
Computed(seq) == seq \o <<>>

\* the words of the phrase, longer than 3 characters, that are words of the
\* text and are neither term of the pair
commonWords(text, phrase, term1, term2) ==
    Only({ LET Common(word) ==
                   /\ Len(word) > MinSubjectLength
                   /\ word \in textWords
                   /\ word # term1 /\ word # term2
           IN SelectSeq(phraseWords, Common) :
           textWords \in {Range(Words(text))}, phraseWords \in {Words(phrase)} })

containsContradictoryStatement(text, phrase) ==
    \E i \in 1..Len(oppositePairs) :
        LET term1 == oppositePairs[i][1]
            term2 == oppositePairs[i][2]
        IN \/ /\ Includes(phrase, term1) /\ Includes(text, term2)
              /\ Len(commonWords(text, phrase, term1, term2)) > 0
           \/ /\ Includes(phrase, term2) /\ Includes(text, term1)
              /\ Len(commonWords(text, phrase, term1, term2)) > 0

\* lines 344-357: the thought has the phrase, and one of the (up to) three
\* words before the first word that contains the phrase's first word is a
\* negation word
negatesPhrase(text, phrase) ==
    /\ Includes(text, phrase)
    /\ \E words \in {Words(text)}, first \in {Words(phrase)[1]} :
         \E hits \in {{i \in 1..Len(words) : Includes(words[i], first)}} :
            /\ hits # {}
            /\ \E phraseIndex \in {KthSmallest(hits, 1)} :
                 LET startIndex == IF phraseIndex - NegationWindow < 1 THEN 1
                                   ELSE phraseIndex - NegationWindow
                 IN \E i \in startIndex..(phraseIndex - 1) :
                        words[i] \in promptNegationWords

\* element.split(/[,.]/).map(phrase => phrase.trim()).filter(phrase => phrase.length > 0)
keyPhrases(element) ==
    SelectSeq(Only({[i \in 1..Len(pieces) |-> Trim(pieces[i])] :
                       pieces \in {SplitEach(element, {",", "."})}}),
              NonEmpty)

\* one turn of the loop of lines 339-364: the explanation returned for the
\* phrase, if any
phraseContradiction(text, phrase) ==
    IF Len(phrase) < MinPhraseLength THEN Absent
    ELSE IF negatesPhrase(text, phrase)
    THEN Present("Thought negates the prompt element: \"" \o phrase \o "\"")
    ELSE IF containsContradictoryStatement(text, phrase)
    THEN Present("Thought contains a statement contradicting: \"" \o phrase \o "\"")
    ELSE Absent

\* the first entry of a sequence of optional values that is present
FirstPresent(options) ==
    Only({ IF \E i \in 1..Len(os) : IsPresent(os[i])
           THEN os[KthSmallest({i \in 1..Len(os) : IsPresent(os[i])}, 1)]
           ELSE Absent : os \in {Computed(options)} })

\* string | null: the explanation for the first key phrase that the thought
\* negates or contradicts
detectPromptElementContradiction(thoughtText, promptElement) ==
    FirstPresent(Only({ [i \in 1..Len(phrases) |-> phraseContradiction(text, phrases[i])] :
                        text \in {ToLowerCase(thoughtText)},
                        phrases \in {keyPhrases(ToLowerCase(promptElement))} }))

\* one forEach of checkPromptContradictions: the elements the thought
\* contradicts, in the order of the list
elementContradictions(thoughtData, elements, type) ==
    Only({ Only({ Computed([k \in 1..Cardinality(found) |->
                               LET i == KthSmallest(found, k)
                               IN [type |-> type, element |-> elements[i],
                                   explanation |-> Get(explanations[i])]]) :
                  found \in {{i \in 1..Len(elements) : Truthy(explanations[i])}} }) :
           explanations \in
               {Computed([i \in 1..Len(elements) |->
                             detectPromptElementContradiction(thoughtData.thought,
                                                              elements[i])])} })

\* generateResolutionStrategies without the general strategy
generateResolutionStrategies_TargetedOnly(contradictions) ==
    IF Len(contradictions) = 0 THEN <<>>
    ELSE IF contradictions[1].type = "goal"
         THEN <<"Revise to align with goal: \"" \o contradictions[1].element \o "\"">>
         ELSE <<"Modify to respect constraint: \"" \o contradictions[1].element \o "\"">>

generateResolutionStrategies(contradictions) ==
    IF Len(contradictions) = 0 THEN <<>>
    ELSE (IF contradictions[1].type = "goal"
          THEN <<"Revise to align with goal: \"" \o contradictions[1].element \o "\"">>
          ELSE IF contradictions[1].type = "constraint"
          THEN <<"Modify to respect constraint: \"" \o contradictions[1].element \o "\"">>
          ELSE <<>>)
         \o <<"Review prompt requirements">>

checkPromptContradictions(thoughtData, metadata) ==
    Only({ [hasContradictions |-> Len(contradictions) > 0,
            details |-> contradictions,
            resolutionStrategies |-> generateResolutionStrategies(contradictions)] :
           contradictions \in
               {elementContradictions(thoughtData, metadata.goals, "goal")
                  \o elementContradictions(thoughtData, metadata.constraints,
                                           "constraint")} })

-----------------------------------------------------------------------------
(* ContradictionDetector: consistency of a thought list with the prompt.   *)
(* A score is an exact fraction <<numerator, denominator>> in lowest       *)
(* terms: 0.5, 0.3, 0.2, 0.7 and 0.1 are 1/2, 3/10, 1/5, 7/10 and 1/10,    *)
(* and sums, products and quotients are exact.  The rounding of a double   *)
(* is not part of the model, which therefore decides a comparison of two   *)
(* scores that are equal as fractions by the operator of the code alone.   *)

RECURSIVE GCD(_, _)
GCD(a, b) == IF b = 0 THEN a ELSE GCD(b, a % b)

\* n / d in lowest terms, for n >= 0 and d > 0
Rat(n, d) == LET g == GCD(n, d) IN <<n \div g, d \div g>>

RatPlus(a, b) == Rat(a[1] * b[2] + b[1] * a[2], a[2] * b[2])
RatTimes(a, b) == Rat(a[1] * b[1], a[2] * b[2])

\* scores.reduce((sum, item) => sum + item, 0)
RECURSIVE RatSum(_)
RatSum(scores) ==
    IF scores = <<>> THEN <<0, 1>> ELSE RatPlus(Head(scores), RatSum(Tail(scores)))

AtLeastOne(n) == IF n < 1 THEN 1 ELSE n

GoalWeight == <<1, 2>>
ConstraintWeight == <<3, 10>>
DomainWeight == <<1, 5>>
ContradictionPenalty == <<1, 5>>
InconsistencyThreshold == <<7, 10>>
TrendMargin == <<1, 10>>
TrendMinThoughts == 3
MaxListedElements == 3

\* (matches / Math.max(1, elements.length)) * weight
matchFraction(thoughtText, elements, weight) ==
    LET matches ==
            Cardinality({i \in 1..Len(elements) :
                            Includes(thoughtText, ToLowerCase(elements[i]))})
    IN RatTimes(Rat(matches, AtLeastOne(Len(elements))), weight)

\* the alignment score with every match fraction weighted 0.5
calculatePromptAlignmentScore_EqualWeights(thoughtData, metadata) ==
    Only({ RatPlus(RatPlus(matchFraction(thoughtText, metadata.goals, GoalWeight),
                           matchFraction(thoughtText, metadata.constraints, GoalWeight)),
                   matchFraction(thoughtText, metadata.domains, GoalWeight)) :
           thoughtText \in {ToLowerCase(thoughtData.thought)} })

calculatePromptAlignmentScore(thoughtData, metadata) ==
    Only({ RatPlus(RatPlus(matchFraction(thoughtText, metadata.goals, GoalWeight),
                           matchFraction(thoughtText, metadata.constraints, ConstraintWeight)),
                   matchFraction(thoughtText, metadata.domains, DomainWeight)) :
           thoughtText \in {ToLowerCase(thoughtData.thought)} })

\* consistencyScore without Math.max(0, ...)
consistencyScore_Unclamped(contradictionCount, alignmentScore) ==
    <<(ContradictionPenalty[2] - contradictionCount * ContradictionPenalty[1])
          * alignmentScore[1],
      ContradictionPenalty[2] * alignmentScore[2]>>

\* Math.max(0, 1 - contradictions * 0.2) * alignmentScore
consistencyScore(contradictionCount, alignmentScore) ==
    RatTimes(IF contradictionCount * ContradictionPenalty[1] >= ContradictionPenalty[2]
             THEN <<0, 1>>
             ELSE Rat(ContradictionPenalty[2] - contradictionCount * ContradictionPenalty[1],
                      ContradictionPenalty[2]),
             alignmentScore)

\* scoreEntry giving the explanation of the last contradiction as the reason
scoreEntry_LastExplanation(thoughtData, metadata) ==
    Only({ [thoughtNumber |-> thoughtData.thoughtNumber,
            score |-> consistencyScore(Len(contradictions.details), alignmentScore),
            reason |-> IF RatLess(consistencyScore(Len(contradictions.details),
                                                   alignmentScore),
                                  InconsistencyThreshold)
                          /\ Len(contradictions.details) > 0
                       THEN Present(contradictions.details[Len(contradictions.details)]
                                        .explanation)
                       ELSE Absent] :
           contradictions \in {checkPromptContradictions(thoughtData, metadata)},
           alignmentScore \in {calculatePromptAlignmentScore(thoughtData, metadata)} })

\* lines 156-176: one entry for a thought; reason? is present when the score
\* is below 0.7 and the thought contradicts an element
scoreEntry(thoughtData, metadata) ==
    Only({ [thoughtNumber |-> thoughtData.thoughtNumber,
            score |-> consistencyScore(Len(contradictions.details), alignmentScore),
            reason |-> IF RatLess(consistencyScore(Len(contradictions.details),
                                                   alignmentScore),
                                  InconsistencyThreshold)
                          /\ Len(contradictions.details) > 0
                       THEN Present(contradictions.details[1].explanation)
                       ELSE Absent] :
           contradictions \in {checkPromptContradictions(thoughtData, metadata)},
           alignmentScore \in {calculatePromptAlignmentScore(thoughtData, metadata)} })

consistencyScores(thoughts, metadata) ==
    Computed([i \in 1..Len(thoughts) |-> scoreEntry(thoughts[i], metadata)])

\* items.reduce((sum, item) => sum + item.score, 0) / count
meanScore(items, count) ==
    LET sum == RatSum([i \in 1..Len(items) |-> items[i].score])
    IN Rat(sum[1], sum[2] * count)

\* lines 183-188
inconsistentThoughtsOf(scores) ==
    LET Flagged(item) == RatLess(item.score, InconsistencyThreshold) /\ Truthy(item.reason)
        flagged == SelectSeq(scores, Flagged)
    IN Computed([i \in 1..Len(flagged) |->
                    [thoughtNumber |-> flagged[i].thoughtNumber,
                     inconsistencyReason |-> Get(flagged[i].reason)]])

\* the trend computed from two thoughts on
consistencyTrendOf_FromTwoThoughts(scores) ==
    IF Len(scores) >= TrendMinThoughts - 1
    THEN LET half == Len(scores) \div 2
             firstHalfAvg == meanScore(SubSeq(scores, 1, half), half)
             secondHalfAvg == meanScore(SubSeq(scores, half + 1, Len(scores)),
                                        Len(scores) - half)
         IN IF RatLess(RatPlus(firstHalfAvg, TrendMargin), secondHalfAvg) THEN "improving"
            ELSE IF RatLess(RatPlus(secondHalfAvg, TrendMargin), firstHalfAvg)
            THEN "declining"
            ELSE "stable"
    ELSE "stable"

\* the trend with the list split after ceil(n/2) thoughts
consistencyTrendOf_SplitAtCeiling(scores) ==
    IF Len(scores) >= TrendMinThoughts
    THEN LET half == (Len(scores) + 1) \div 2
             firstHalfAvg == meanScore(SubSeq(scores, 1, half), half)
             secondHalfAvg == meanScore(SubSeq(scores, half + 1, Len(scores)),
                                        Len(scores) - half)
         IN IF RatLess(RatPlus(firstHalfAvg, TrendMargin), secondHalfAvg) THEN "improving"
            ELSE IF RatLess(RatPlus(secondHalfAvg, TrendMargin), firstHalfAvg)
            THEN "declining"
            ELSE "stable"
    ELSE "stable"

\* lines 190-204
consistencyTrendOf(scores) ==
    IF Len(scores) >= TrendMinThoughts
    THEN LET half == Len(scores) \div 2
             firstHalfAvg == meanScore(SubSeq(scores, 1, half), half)
             secondHalfAvg == meanScore(SubSeq(scores, half + 1, Len(scores)),
                                        Len(scores) - half)
         IN IF RatLess(RatPlus(firstHalfAvg, TrendMargin), secondHalfAvg) THEN "improving"
            ELSE IF RatLess(RatPlus(secondHalfAvg, TrendMargin), firstHalfAvg)
            THEN "declining"
            ELSE "stable"
    ELSE "stable"

\* numbers.join(', ')
JoinNumbers(numbers) == Join([i \in 1..Len(numbers) |-> ToString(numbers[i])], ", ")

\* lines 512-528: one recommendation for a reason that says "negates" or
\* "contradicting", the reasons in the order they first occur
reasonGroupRecommendations(inconsistentThoughts) ==
    LET reasons ==
            Dedup([i \in 1..Len(inconsistentThoughts) |->
                      inconsistentThoughts[i].inconsistencyReason])
        Numbers(reason) ==
            LET InGroup(t) == t.inconsistencyReason = reason
                group == SelectSeq(inconsistentThoughts, InGroup)
            IN [i \in 1..Len(group) |-> group[i].thoughtNumber]
        Known(reason) == Includes(reason, "negates") \/ Includes(reason, "contradicting")
        known == SelectSeq(reasons, Known)
    IN [i \in 1..Len(known) |->
           IF Includes(known[i], "negates")
           THEN "Thoughts " \o JoinNumbers(Numbers(known[i]))
                    \o " contradict prompt requirements - consider alternative approaches"
           ELSE "Thoughts " \o JoinNumbers(Numbers(known[i]))
                    \o " contain statements that conflict with prompt goals"]

generateConsistencyRecommendations(inconsistentThoughts, trend, metadata) ==
    (IF Len(inconsistentThoughts) > 0
     THEN <<"Revise thoughts "
              \o JoinNumbers([i \in 1..Len(inconsistentThoughts) |->
                                 inconsistentThoughts[i].thoughtNumber])
              \o " to align with prompt requirements">>
            \o reasonGroupRecommendations(inconsistentThoughts)
     ELSE <<>>)
    \o (IF trend = "declining"
        THEN <<"Recent thoughts are becoming less aligned with the prompt - refocus on the original requirements">>
        ELSE IF trend = "improving"
        THEN <<"Continue the improving trend of prompt alignment in future thoughts">>
        ELSE <<>>)
    \o <<"Ensure all thoughts address the primary goals: "
           \o Join(SliceTo(metadata.goals, MaxListedElements), ", ")>>
    \o (IF Len(metadata.constraints) > 0
        THEN <<"Maintain awareness of key constraints: "
                 \o Join(SliceTo(metadata.constraints, MaxListedElements), ", ")>>
        ELSE <<>>)

analyzePromptConsistency(thoughts, metadata) ==
    Only({ Only({ [overallConsistency |-> meanScore(scores, AtLeastOne(Len(scores))),
                   inconsistentThoughts |-> inconsistentThoughts,
                   consistencyTrend |-> consistencyTrend,
                   recommendations |->
                       generateConsistencyRecommendations(inconsistentThoughts,
                                                          consistencyTrend, metadata)] :
                  inconsistentThoughts \in {inconsistentThoughtsOf(scores)},
                  consistencyTrend \in {consistencyTrendOf(scores)} }) :
           scores \in {consistencyScores(thoughts, metadata)} })

-----------------------------------------------------------------------------
(* Arguments drawn by the prompt-consistency specifications                *)

MaxPromptElements == 3
MaxConsistencyThoughts == 4

Prefixes(pool, n) == {SubSeq(pool, 1, k) : k \in 0..(IF n < Len(pool) THEN n ELSE Len(pool))}

GoalPool == <<"Write code", "More speed.", "fast, write code", "Write code">>
ConstraintPool == <<"use tests", "Write code.", "add more speed", "use tests">>
DomainPool == <<"code", "math">>

\* as many goals as constraints, or one of either alone
ElementCounts ==
    {<<k, k>> : k \in 0..(IF MaxPromptElements < Len(GoalPool)
                          THEN MaxPromptElements ELSE Len(GoalPool))}
        \cup {<<1, 0>>, <<0, 1>>}

ConsistencyMetadatas ==
    {[goals |-> SubSeq(GoalPool, 1, n[1]),
      constraints |-> SubSeq(ConstraintPool, 1, n[2]),
      domains |-> d] : n \in ElementCounts, d \in Prefixes(DomainPool, MaxDomains)}

\* for a thought list: the number of domains follows the number of goals
ListMetadatas ==
    {[goals |-> SubSeq(GoalPool, 1, n[1]),
      constraints |-> SubSeq(ConstraintPool, 1, n[2]),
      domains |-> SubSeq(DomainPool, 1, n[1] % (Len(DomainPool) + 1))] :
        n \in ElementCounts}

\* the end-to-end scenario of the constraint that must not be contradicted
ScenarioPrompt == "You must never allow the system to fail"
ScenarioThought == "The system will definitely fail without monitoring"

\* a thought in line with the prompt, one that negates a goal far from the
\* constraint it repeats, and one that negates or contradicts every element
ConsistencyTexts ==
    { "write code, use tests",
      "not write code a b c use tests",
      "not write code, not use tests, less speed" }

\* for one thought: also no text, the scenario, a thought that negates a
\* constraint and no goal, and one with a negation before a word that holds
\* the first word of a constraint it repeats later
ContradictionTexts ==
    ConsistencyTexts
        \cup {"", ScenarioThought, "we never use tests", "never reuse code, we use tests"}

TextThought(n, text) ==
    Thought(n, FALSE, [classification |-> Absent, thought |-> text, assumptions |-> Absent])

\* thought lists numbered 1, 2, ... in order
ConsistencyThoughtLists ==
    {[i \in 1..Len(texts) |-> TextThought(i, texts[i])] :
        texts \in SeqsUpTo(ConsistencyTexts, MaxConsistencyThoughts)}

-----------------------------------------------------------------------------
(* Specification SpecPromptContradictions: checkPromptContradictions on a  *)
(* thought and the metadata of a prompt                                    *)

InitPromptContradictions ==
    /\ pc = "call"
    /\ \/ /\ prompt = ""
          /\ newThought \in {TextThought(1, text) : text \in ContradictionTexts}
          /\ promptMetadata \in ConsistencyMetadatas
       \/ /\ prompt = ScenarioPrompt
          /\ newThought \in {TextThought(1, text) : text \in ContradictionTexts}
          /\ promptMetadata = analyzePrompt(prompt)
    /\ existingThoughts = <<>> /\ similarity = <<>>
    /\ assumption1 = "" /\ assumption2 = ""
    /\ thought = ""
    /\ probabilities = <<>>
    /\ ret = NoRet
    /\ history = <<>>
    /\ promptContext = NewPromptContext

CheckPromptContradictions ==
    /\ pc = "call"
    /\ pc' = "checkPromptContradictions"
    /\ ret' = Returned("checkPromptContradictions",
                       checkPromptContradictions(newThought, promptMetadata))
    /\ UNCHANGED <<newThought, existingThoughts, similarity, assumption1,
                   assumption2, thought, promptMetadata, prompt, probabilities,
                   history, promptContext>>

NextPromptContradictions == CheckPromptContradictions

SpecPromptContradictions == InitPromptContradictions /\ [][NextPromptContradictions]_vars

-----------------------------------------------------------------------------
(* Specification SpecConsistency: analyzePromptConsistency on a thought    *)
(* list and the metadata of a prompt                                       *)

InitConsistency ==
    /\ pc = "call"
    /\ existingThoughts \in ConsistencyThoughtLists
    /\ promptMetadata \in ListMetadatas
    /\ newThought = TextThought(1, "")
    /\ similarity = <<>>
    /\ assumption1 = "" /\ assumption2 = ""
    /\ thought = "" /\ prompt = ""
    /\ probabilities = <<>>
    /\ ret = NoRet
    /\ history = <<>>
    /\ promptContext = NewPromptContext

\* analyzePromptConsistency reversing the list it was given
AnalyzePromptConsistency_ReversesThoughts ==
    /\ pc = "call"
    /\ pc' = "analyzePromptConsistency"
    /\ ret' = Returned("analyzePromptConsistency",
                       analyzePromptConsistency(existingThoughts, promptMetadata))
    /\ existingThoughts' = Reverse(existingThoughts)
    /\ UNCHANGED <<newThought, similarity, assumption1, assumption2, thought,
                   promptMetadata, prompt, probabilities, history, promptContext>>

AnalyzePromptConsistency ==
    /\ pc = "call"
    /\ pc' = "analyzePromptConsistency"
    /\ ret' = Returned("analyzePromptConsistency",
                       analyzePromptConsistency(existingThoughts, promptMetadata))
    /\ UNCHANGED <<newThought, existingThoughts, similarity, assumption1,
                   assumption2, thought, promptMetadata, prompt, probabilities,
                   history, promptContext>>

NextConsistency == AnalyzePromptConsistency

SpecConsistency == InitConsistency /\ [][NextConsistency]_vars

-----------------------------------------------------------------------------
(* Properties of checkPromptContradictions                                 *)

\* C15: on the metadata of the prompt "You must never allow the system to
\* fail", checkPromptContradictions of the thought "The system will
\* definitely fail without monitoring" has hasContradictions = true and a
\* detail of type constraint whose element is the sentence of the prompt
C15_ScenarioConstraintReported ==
    (/\ pc = "checkPromptContradictions"
     /\ prompt = ScenarioPrompt
     /\ newThought.thought = ScenarioThought)
        => /\ ret.value.hasContradictions
           /\ \E i \in 1..Len(ret.value.details) :
                 /\ ret.value.details[i].type = "constraint"
                 /\ ret.value.details[i].element = ScenarioPrompt

\* C20: resolutionStrategies is empty when details is empty; otherwise it
\* has exactly two entries, the first aimed at the first detail ("Revise to
\* align with goal" for a goal, "Modify to respect constraint" for a
\* constraint, quoting the element) and the second "Review prompt
\* requirements"; hasContradictions is true iff details is non-empty
C20_TwoStrategiesOrNone ==
    pc = "checkPromptContradictions"
        => LET details == ret.value.details
               strategies == ret.value.resolutionStrategies
           IN /\ ret.value.hasContradictions <=> details # <<>>
              /\ details = <<>> => strategies = <<>>
              /\ details # <<>> =>
                    /\ Len(strategies) = 2
                    /\ details[1].type = "goal" =>
                          strategies[1] = "Revise to align with goal: \""
                                              \o details[1].element \o "\""
                    /\ details[1].type = "constraint" =>
                          strategies[1] = "Modify to respect constraint: \""
                                              \o details[1].element \o "\""
                    /\ details[1].type \in {"goal", "constraint"}
                    /\ strategies[2] = "Review prompt requirements"

\* a thought that contradicts no goal and a constraint
C20_Witness ==
    /\ pc = "checkPromptContradictions"
    /\ promptMetadata.goals # <<>>
    /\ ret.value.details # <<>>
    /\ ret.value.details[1].type = "constraint"

-----------------------------------------------------------------------------
(* Properties of analyzePromptConsistency                                  *)

\* what checkPromptContradictions finds for each thought of the list
DetailsPerThought ==
    Computed([i \in 1..Len(existingThoughts) |->
                 checkPromptContradictions(existingThoughts[i], promptMetadata).details])

\* max(0, 1 - 0.2 * count) * alignment equals the fraction score
IsPenalisedAlignment(score, count, alignment) ==
    IF count >= 5 THEN score[1] = 0
    ELSE score[1] * 5 * alignment[2] = (5 - count) * alignment[1] * score[2]

InUnitInterval(score) == score[2] > 0 /\ 0 <= score[1] /\ score[1] <= score[2]

\* C11: on fewer than 3 thoughts (none included) consistencyTrend is stable,
\* and on exactly one thought overallConsistency is that thought's score
\* max(0, 1 - 0.2 * contradictionCount) * alignmentFraction
C11_ShortListStable ==
    (pc = "analyzePromptConsistency" /\ Len(existingThoughts) < 3)
        => /\ ret.value.consistencyTrend = "stable"
           /\ Len(existingThoughts) = 1 =>
                 IsPenalisedAlignment(
                     ret.value.overallConsistency,
                     Len(DetailsPerThought[1]),
                     calculatePromptAlignmentScore(existingThoughts[1], promptMetadata))

\* one thought that contradicts the prompt and still scores above 0
C11_Witness ==
    /\ pc = "analyzePromptConsistency"
    /\ Len(existingThoughts) = 1
    /\ Len(DetailsPerThought[1]) > 0
    /\ ret.value.overallConsistency[1] > 0

\* C17: every per-thought consistency score and overallConsistency lie in
\* [0,1], whatever the number of contradictions and however many goals,
\* constraints and domains there are, and overallConsistency is the mean of
\* the per-thought scores, 0 for the empty list
C17_ScoresInUnitInterval ==
    pc = "analyzePromptConsistency"
        => \E scores \in {consistencyScores(existingThoughts, promptMetadata)} :
              /\ \A i \in 1..Len(scores) : InUnitInterval(scores[i].score)
              /\ InUnitInterval(ret.value.overallConsistency)
              /\ \E sum \in {RatSum([i \in 1..Len(scores) |-> scores[i].score])} :
                    IF Len(scores) = 0 THEN ret.value.overallConsistency[1] = 0
                    ELSE ret.value.overallConsistency[1] * sum[2] * Len(scores)
                             = sum[1] * ret.value.overallConsistency[2]

\* a thought with 5 or more contradictions next to one that scores above 0,
\* and no domains
C17_Witness ==
    /\ pc = "analyzePromptConsistency"
    /\ promptMetadata.domains = <<>>
    /\ \E i \in 1..Len(existingThoughts) : Len(DetailsPerThought[i]) >= 5
    /\ ret.value.overallConsistency[1] > 0

\* the mean score of the thoughts from..to of the list
MeanOfScores(scores, from, to) ==
    LET sum == RatSum([i \in 1..(to - from + 1) |-> scores[from + i - 1].score])
    IN <<sum[1], sum[2] * (to - from + 1)>>

\* b exceeds a by more than 1/10
ExceedsByMargin(a, b) == 10 * b[1] * a[2] > (10 * a[1] + a[2]) * b[2]

FirstExplanation(thoughtData, metadata) ==
    FirstPresent([i \in 1..(Len(metadata.goals) + Len(metadata.constraints)) |->
                     detectPromptElementContradiction(
                         thoughtData.thought,
                         (metadata.goals \o metadata.constraints)[i])])

\* C19: inconsistentThoughts lists, in input order, exactly the thoughts
\* whose score is below 0.7 and that contradict at least one element, each
\* with the explanation of its first contradiction, goals before constraints
C19_FlaggedIffLowAndContradicted ==
    pc = "analyzePromptConsistency"
        => \E scores \in {consistencyScores(existingThoughts, promptMetadata)},
              details \in {DetailsPerThought} :
             \E flagged \in {{i \in 1..Len(existingThoughts) :
                                 /\ 10 * scores[i].score[1] < 7 * scores[i].score[2]
                                 /\ Len(details[i]) > 0}} :
                /\ Len(ret.value.inconsistentThoughts) = Cardinality(flagged)
                /\ \A k \in 1..Cardinality(flagged) :
                      \E i \in {KthSmallest(flagged, k)} :
                         ret.value.inconsistentThoughts[k]
                             = [thoughtNumber |-> existingThoughts[i].thoughtNumber,
                                inconsistencyReason |->
                                    Get(FirstExplanation(existingThoughts[i],
                                                         promptMetadata))]

\* a listed thought that contradicts two elements for different reasons,
\* after a thought that contradicts an element and is not listed
C19_Witness ==
    /\ pc = "analyzePromptConsistency"
    /\ Len(ret.value.inconsistentThoughts) = 1
    /\ \E i, j \in 1..Len(existingThoughts) :
          /\ i < j
          /\ Len(DetailsPerThought[i]) > 0
          /\ ret.value.inconsistentThoughts[1].thoughtNumber = j
          /\ \E k \in 2..Len(DetailsPerThought[j]) :
                DetailsPerThought[j][k].explanation # DetailsPerThought[j][1].explanation

-----------------------------------------------------------------------------
(* IntelligenceMaximizationModule: patterns across the thoughts of a       *)
(* session.  Frequencies are exact fractions.  Math.log2 of a fraction of  *)
(* two small integers is read from a table in thousandths, and the         *)
(* quotient that calculateEntropy returns is kept to three decimals, so    *)
(* the logarithms of powers of two, and with them the entropies 0, 1/2     *)
(* and 1, are exact and every other entropy is within 0.002 of its value.  *)

RatMinus(a, b) == Rat(a[1] * b[2] - b[1] * a[2], a[2] * b[2])
RatOver(a, b) == Rat(a[1] * b[2], a[2] * b[1])
RatMin(a, b) == IF RatLess(b, a) THEN b ELSE a

LogScale == 1000

\* round(1000 * log2(k)) for k = 1..32
log2Table ==
    <<0, 1000, 1585, 2000, 2322, 2585, 2807, 3000, 3170, 3322, 3459, 3585,
      3700, 3807, 3907, 4000, 4087, 4170, 4248, 4322, 4392, 4459, 4524, 4585,
      4644, 4700, 4755, 4807, 4858, 4907, 4954, 5000>>

\* Math.log2(p) for a fraction p > 0 in lowest terms
log2(p) == Rat(log2Table[p[1]] - log2Table[p[2]], LogScale)

\* a number >= 0 cut to three decimals, by long division
Truncated(x) ==
    LET whole == x[1] \div x[2]
        r1 == (x[1] % x[2]) * 10
        r2 == (r1 % x[2]) * 10
        r3 == (r2 % x[2]) * 10
    IN Rat(whole * 1000 + (r1 \div x[2]) * 100 + (r2 \div x[2]) * 10 + (r3 \div x[2]),
           1000)

IsPositive(p) == p[1] > 0

\* probabilities.reduce((sum, p) => sum + p * Math.log2(p), 0)
RECURSIVE sumPLog2P(_)
sumPLog2P(normalizedProbs) ==
    IF normalizedProbs = <<>> THEN <<0, 1>>
    ELSE RatPlus(sumPLog2P(SubSeq(normalizedProbs, 1, Len(normalizedProbs) - 1)),
                 RatTimes(normalizedProbs[Len(normalizedProbs)],
                          log2(normalizedProbs[Len(normalizedProbs)])))

\* calculateEntropy without the division by the largest entropy
calculateEntropy_Unnormalised(probabilities_) ==
    Only({ IF log2(<<AtLeastOne(Len(validProbs)), 1>>) = <<0, 1>> THEN <<0, 1>>
           ELSE Truncated(RatMinus(<<0, 1>>,
                    sumPLog2P(Computed([i \in 1..Len(validProbs) |->
                                  RatOver(validProbs[i], RatSum(validProbs))])))) :
           validProbs \in {SelectSeq(probabilities_, IsPositive)} })

calculateEntropy(probabilities_) ==
    Only({ IF log2(<<AtLeastOne(Len(validProbs)), 1>>) = <<0, 1>> THEN <<0, 1>>
           ELSE Truncated(RatOver(
                    RatMinus(<<0, 1>>,
                        sumPLog2P(Computed([i \in 1..Len(validProbs) |->
                                      RatOver(validProbs[i], RatSum(validProbs))]))),
                    log2(<<AtLeastOne(Len(validProbs)), 1>>))) :
           validProbs \in {SelectSeq(probabilities_, IsPositive)} })

PhaseNames == <<"Planning", "Analysis", "Execution", "Verification">>

PlanningHeavyAbove == <<2, 5>>
ExecutionFocusedAbove == <<3, 5>>
VerificationLightBelow == <<1, 10>>
SingleToolAbove == <<7, 10>>
ToolAvoidantFrequency == <<4, 5>>
ClassificationDominantAbove == <<3, 5>>
NeutralDiversity == <<5, 1>>
MaxDiversity == <<10, 1>>
PhaseDiversityWeight == <<2, 1>>
ToolDiversityWeight == <<3, 2>>
ClassificationDiversityWeight == <<3, 2>>
MinPatternThoughts == 3
MinEvolutionThoughts == 5

\* how many thoughts are in the given phase
PhaseCount(thoughts, phase) ==
    Cardinality({i \in 1..Len(thoughts) :
                    Truthy(thoughts[i].phase) /\ Get(thoughts[i].phase) = phase})

\* the share of each phase among all thoughts, those without a phase counted
\* in the total; thoughts is never empty here
analyzePhaseDistribution(thoughts) ==
    [phase \in Range(PhaseNames) |-> Rat(PhaseCount(thoughts, phase), Len(thoughts))]

\* every tool listed by every thought, in order, once for each listing
RECURSIVE ToolMentions(_)
ToolMentions(thoughts) ==
    IF thoughts = <<>> THEN <<>>
    ELSE ToolMentions(SubSeq(thoughts, 1, Len(thoughts) - 1))
            \o (IF IsPresent(thoughts[Len(thoughts)].toolsUsed)
                THEN Get(thoughts[Len(thoughts)].toolsUsed) ELSE <<>>)

Occurrences(seq, x) == Cardinality({i \in 1..Len(seq) : seq[i] = x})

\* Object.entries(toolCounts) keeps the order of first use; the frequencies
\* share the denominator thoughts.length, so the sort orders by count
analyzeToolUsagePatterns(thoughts) ==
    Only({ Computed(SortDescending(
               [i \in 1..Len(tools) |->
                   [tool |-> tools[i],
                    frequency |-> Rat(Occurrences(mentions, tools[i]), Len(thoughts))]],
               [i \in 1..Len(tools) |-> Occurrences(mentions, tools[i])])) :
           mentions \in {ToolMentions(thoughts)},
           tools \in {Dedup(ToolMentions(thoughts))} })

HasClassification(t) == Truthy(t.classification)

analyzeClassificationPatterns(thoughts) ==
    Only({ Computed(SortDescending(
               [i \in 1..Len(names) |->
                   [classification |-> names[i],
                    frequency |-> Rat(Occurrences(classified, names[i]),
                                      AtLeastOne(Len(classified)))]],
               [i \in 1..Len(names) |-> Occurrences(classified, names[i])])) :
           classified \in
               {Only({ Computed([i \in 1..Len(with) |-> Get(with[i].classification)]) :
                       with \in {SelectSeq(thoughts, HasClassification)} })},
           names \in
               {Only({ Dedup(Computed([i \in 1..Len(with) |-> Get(with[i].classification)])) :
                       with \in {SelectSeq(thoughts, HasClassification)} })} })

positiveClassifications ==
    [creative |-> {"hypothesis", "question"},
     analytical |-> {"observation", "conclusion"},
     technical |-> {"solution"},
     informational |-> {"observation"}]

evaluateClassificationImpact(classification, metadata) ==
    IF /\ metadata.taskType \in DOMAIN positiveClassifications
       /\ classification \in positiveClassifications[metadata.taskType]
    THEN "positive" ELSE "neutral"

Pattern(name, description, frequency, impact) ==
    [patternName |-> name, description |-> description,
     frequency |-> frequency, impact |-> impact]

\* identifyDominantPatterns with the Planning threshold included
identifyDominantPatterns_PlanningAtThreshold(phaseDistribution, toolUsagePatterns, classificationPatterns, metadata) ==
    (IF ~RatLess(phaseDistribution["Planning"], PlanningHeavyAbove)
     THEN <<Pattern("Planning-Heavy", "Significant focus on planning phase",
                    phaseDistribution["Planning"],
                    IF metadata.complexity = "complex" THEN "positive" ELSE "negative")>>
     ELSE <<>>)
    \o (IF RatLess(ExecutionFocusedAbove, phaseDistribution["Execution"])
        THEN <<Pattern("Execution-Focused",
                       "Strong emphasis on execution with less planning/verification",
                       phaseDistribution["Execution"],
                       IF metadata.complexity = "simple" THEN "positive" ELSE "negative")>>
        ELSE <<>>)
    \o (IF RatLess(phaseDistribution["Verification"], VerificationLightBelow)
        THEN <<Pattern("Verification-Light", "Limited verification of solutions",
                       RatMinus(<<1, 1>>, phaseDistribution["Verification"]),
                       "negative")>>
        ELSE <<>>)
    \o (IF Len(toolUsagePatterns) = 0
        THEN <<Pattern("Tool-Avoidant", "Minimal use of available tools",
                       ToolAvoidantFrequency, "negative")>>
        ELSE IF RatLess(SingleToolAbove, toolUsagePatterns[1].frequency)
        THEN <<Pattern("Single-Tool-Dominant",
                       "Heavy reliance on " \o toolUsagePatterns[1].tool,
                       toolUsagePatterns[1].frequency, "neutral")>>
        ELSE <<>>)
    \o (IF /\ Len(classificationPatterns) > 0
           /\ RatLess(ClassificationDominantAbove, classificationPatterns[1].frequency)
        THEN <<Pattern(classificationPatterns[1].classification \o "-Dominant",
                       "Thinking primarily classified as "
                           \o classificationPatterns[1].classification,
                       classificationPatterns[1].frequency,
                       evaluateClassificationImpact(
                           classificationPatterns[1].classification, metadata))>>
        ELSE <<>>)

identifyDominantPatterns(phaseDistribution, toolUsagePatterns, classificationPatterns, metadata) ==
    (IF RatLess(PlanningHeavyAbove, phaseDistribution["Planning"])
     THEN <<Pattern("Planning-Heavy", "Significant focus on planning phase",
                    phaseDistribution["Planning"],
                    IF metadata.complexity = "complex" THEN "positive" ELSE "negative")>>
     ELSE <<>>)
    \o (IF RatLess(ExecutionFocusedAbove, phaseDistribution["Execution"])
        THEN <<Pattern("Execution-Focused",
                       "Strong emphasis on execution with less planning/verification",
                       phaseDistribution["Execution"],
                       IF metadata.complexity = "simple" THEN "positive" ELSE "negative")>>
        ELSE <<>>)
    \o (IF RatLess(phaseDistribution["Verification"], VerificationLightBelow)
        THEN <<Pattern("Verification-Light", "Limited verification of solutions",
                       RatMinus(<<1, 1>>, phaseDistribution["Verification"]),
                       "negative")>>
        ELSE <<>>)
    \o (IF Len(toolUsagePatterns) = 0
        THEN <<Pattern("Tool-Avoidant", "Minimal use of available tools",
                       ToolAvoidantFrequency, "negative")>>
        ELSE IF RatLess(SingleToolAbove, toolUsagePatterns[1].frequency)
        THEN <<Pattern("Single-Tool-Dominant",
                       "Heavy reliance on " \o toolUsagePatterns[1].tool,
                       toolUsagePatterns[1].frequency, "neutral")>>
        ELSE <<>>)
    \o (IF /\ Len(classificationPatterns) > 0
           /\ RatLess(ClassificationDominantAbove, classificationPatterns[1].frequency)
        THEN <<Pattern(classificationPatterns[1].classification \o "-Dominant",
                       "Thinking primarily classified as "
                           \o classificationPatterns[1].classification,
                       classificationPatterns[1].frequency,
                       evaluateClassificationImpact(
                           classificationPatterns[1].classification, metadata))>>
        ELSE <<>>)

\* calculateThinkingDiversity starting from 0
calculateThinkingDiversity_FromZero(phaseDistribution, toolUsagePatterns, classificationPatterns) ==
    LET phaseEntropy ==
            calculateEntropy([i \in 1..Len(PhaseNames) |-> phaseDistribution[PhaseNames[i]]])
        toolEntropy ==
            calculateEntropy([i \in 1..Len(toolUsagePatterns) |->
                                 toolUsagePatterns[i].frequency])
        classificationEntropy ==
            calculateEntropy([i \in 1..Len(classificationPatterns) |->
                                 classificationPatterns[i].frequency])
        diversityScore ==
            RatPlus(RatPlus(RatPlus(<<0, 1>>,
                                    RatTimes(phaseEntropy, PhaseDiversityWeight)),
                            IF Len(toolUsagePatterns) > 0
                            THEN RatTimes(toolEntropy, ToolDiversityWeight)
                            ELSE <<0, 1>>),
                    IF Len(classificationPatterns) > 0
                    THEN RatTimes(classificationEntropy, ClassificationDiversityWeight)
                    ELSE <<0, 1>>)
    IN RatMax(<<0, 1>>, RatMin(MaxDiversity, diversityScore))

\* 5, plus up to 2 for the phases and up to 1.5 each for the tools and the
\* classifications, kept within 0..10
calculateThinkingDiversity(phaseDistribution, toolUsagePatterns, classificationPatterns) ==
    LET phaseEntropy ==
            calculateEntropy([i \in 1..Len(PhaseNames) |-> phaseDistribution[PhaseNames[i]]])
        toolEntropy ==
            calculateEntropy([i \in 1..Len(toolUsagePatterns) |->
                                 toolUsagePatterns[i].frequency])
        classificationEntropy ==
            calculateEntropy([i \in 1..Len(classificationPatterns) |->
                                 classificationPatterns[i].frequency])
        diversityScore ==
            RatPlus(RatPlus(RatPlus(NeutralDiversity,
                                    RatTimes(phaseEntropy, PhaseDiversityWeight)),
                            IF Len(toolUsagePatterns) > 0
                            THEN RatTimes(toolEntropy, ToolDiversityWeight)
                            ELSE <<0, 1>>),
                    IF Len(classificationPatterns) > 0
                    THEN RatTimes(classificationEntropy, ClassificationDiversityWeight)
                    ELSE <<0, 1>>)
    IN RatMax(<<0, 1>>, RatMin(MaxDiversity, diversityScore))

diversityOf(thoughts) ==
    calculateThinkingDiversity(analyzePhaseDistribution(thoughts),
                               analyzeToolUsagePatterns(thoughts),
                               analyzeClassificationPatterns(thoughts))

determinePatternEvolution(thoughts) ==
    IF Len(thoughts) < MinEvolutionThoughts THEN "stable"
    ELSE Only({ IF RatLess(<<1, 1>>, difference) THEN "improving"
                ELSE IF RatLess(difference, <<-1, 1>>) THEN "narrowing"
                ELSE "stable" :
                difference \in
                    {RatMinus(diversityOf(SubSeq(thoughts, Len(thoughts) \div 2 + 1,
                                                   Len(thoughts))),
                              diversityOf(SubSeq(thoughts, 1, Len(thoughts) \div 2)))} })

Shift(from, to, benefit) == [from |-> from, to |-> to, benefit |-> benefit]

\* shiftsForPattern with no shift for Tool-Avoidant
shiftsForPattern_WithoutToolAvoidant(pattern, metadata) ==
    (IF pattern.patternName = "Planning-Heavy"
     THEN <<Shift("Excessive planning", "Balanced execution and verification",
                  "More concrete progress and validation of ideas")>>
     ELSE <<>>)
    \o (IF pattern.patternName = "Execution-Focused" /\ metadata.complexity # "simple"
        THEN <<Shift("Immediate execution", "More thorough planning and analysis",
                     "Better structured approach for complex problems")>>
        ELSE <<>>)
    \o (IF pattern.patternName = "Verification-Light"
        THEN <<Shift("Limited verification", "Systematic solution testing",
                     "Higher quality, more robust solutions")>>
        ELSE <<>>)

\* the shifts one negative pattern adds
shiftsForPattern(pattern, metadata) ==
    (IF pattern.patternName = "Planning-Heavy"
     THEN <<Shift("Excessive planning", "Balanced execution and verification",
                  "More concrete progress and validation of ideas")>>
     ELSE <<>>)
    \o (IF pattern.patternName = "Execution-Focused" /\ metadata.complexity # "simple"
        THEN <<Shift("Immediate execution", "More thorough planning and analysis",
                     "Better structured approach for complex problems")>>
        ELSE <<>>)
    \o (IF pattern.patternName = "Verification-Light"
        THEN <<Shift("Limited verification", "Systematic solution testing",
                     "Higher quality, more robust solutions")>>
        ELSE <<>>)
    \o (IF pattern.patternName = "Tool-Avoidant"
        THEN <<Shift("Manual reasoning only", "Strategic tool utilization",
                     "Enhanced capabilities and efficiency")>>
        ELSE <<>>)

RECURSIVE negativePatternShifts(_, _)
negativePatternShifts(dominantPatterns, metadata) ==
    IF dominantPatterns = <<>> THEN <<>>
    ELSE (IF Head(dominantPatterns).impact = "negative"
          THEN shiftsForPattern(Head(dominantPatterns), metadata) ELSE <<>>)
         \o negativePatternShifts(Tail(dominantPatterns), metadata)

generatePatternShifts(dominantPatterns, metadata, thinkingDiversity) ==
    negativePatternShifts(dominantPatterns, metadata)
    \o (IF RatLess(thinkingDiversity, NeutralDiversity)
        THEN <<Shift("Narrow thinking patterns", "Diverse reasoning approaches",
                     "More creative and comprehensive solutions")>>
             \o (IF metadata.taskType = "creative"
                 THEN <<Shift("Conventional thinking",
                              "Exploratory and divergent thinking",
                              "More innovative and original ideas")>>
                 ELSE IF metadata.taskType = "analytical"
                 THEN <<Shift("Single analytical framework",
                              "Multiple analytical perspectives",
                              "More robust and nuanced analysis")>>
                 ELSE <<>>)
        ELSE <<>>)

ThoughtPatternAnalysis(dominantPatterns, suggestedPatternShifts, thinkingDiversity, patternEvolution) ==
    [dominantPatterns |-> dominantPatterns,
     suggestedPatternShifts |-> suggestedPatternShifts,
     thinkingDiversity |-> thinkingDiversity,
     patternEvolution |-> patternEvolution]

\* analyzeThoughtPatterns analysing two thoughts as well
analyzeThoughtPatterns_FromTwoThoughts(thoughts, metadata) ==
    IF Len(thoughts) < MinPatternThoughts - 1
    THEN ThoughtPatternAnalysis(<<>>, <<>>, NeutralDiversity, "stable")
    ELSE Only({ ThoughtPatternAnalysis(
                    dominantPatterns,
                    generatePatternShifts(dominantPatterns, metadata, thinkingDiversity),
                    thinkingDiversity,
                    determinePatternEvolution(thoughts)) :
                dominantPatterns \in
                    {identifyDominantPatterns(analyzePhaseDistribution(thoughts),
                                              analyzeToolUsagePatterns(thoughts),
                                              analyzeClassificationPatterns(thoughts),
                                              metadata)},
                thinkingDiversity \in {diversityOf(thoughts)} })

analyzeThoughtPatterns(thoughts, metadata) ==
    IF Len(thoughts) < MinPatternThoughts
    THEN ThoughtPatternAnalysis(<<>>, <<>>, NeutralDiversity, "stable")
    ELSE Only({ ThoughtPatternAnalysis(
                    dominantPatterns,
                    generatePatternShifts(dominantPatterns, metadata, thinkingDiversity),
                    thinkingDiversity,
                    determinePatternEvolution(thoughts)) :
                dominantPatterns \in
                    {identifyDominantPatterns(analyzePhaseDistribution(thoughts),
                                              analyzeToolUsagePatterns(thoughts),
                                              analyzeClassificationPatterns(thoughts),
                                              metadata)},
                thinkingDiversity \in {diversityOf(thoughts)} })

-----------------------------------------------------------------------------
(* Arguments of analyzeThoughtPatterns and calculateEntropy                *)

MaxSummaries == 5
MaxEntropyEntries == 4

Summary(phase, classification, toolsUsed) ==
    [thought |-> "step", phase |-> phase, classification |-> classification,
     toolsUsed |-> toolsUsed]

\* one summary per phase; they differ in classification and tools
SummaryPool ==
    {Summary(Present("Planning"), Present("hypothesis"), Present(<<"search">>)),
     Summary(Present("Analysis"), Absent, Absent),
     Summary(Present("Execution"), Present("solution"), Present(<<"search", "editor">>)),
     Summary(Present("Verification"), Present("observation"), Present(<<>>))}

SummaryLists == SeqsUpTo(SummaryPool, MaxSummaries)

\* the two fields of PromptMetadata that the analysis reads
PatternMetadatas ==
    {[complexity |-> "simple", taskType |-> "technical"],
     [complexity |-> "medium", taskType |-> "creative"],
     [complexity |-> "complex", taskType |-> "analytical"],
     [complexity |-> "complex", taskType |-> "mixed"]}

\* frequencies count / total of up to MaxEntropyEntries entries
EntropyCounts == 0..3
EntropyTotals == {3, 4}

Distributions ==
    {[i \in 1..Len(counts) |-> Rat(counts[i], total)] :
        counts \in SeqsUpTo(EntropyCounts, MaxEntropyEntries), total \in EntropyTotals}

-----------------------------------------------------------------------------
(* Specification SpecPatterns: analyzeThoughtPatterns on the summaries of  *)
(* a session                                                               *)

InitPatterns ==
    /\ pc = "call"
    /\ existingThoughts \in SummaryLists
    /\ promptMetadata \in PatternMetadatas
    /\ newThought = TextThought(1, "")
    /\ similarity = <<>>
    /\ assumption1 = "" /\ assumption2 = ""
    /\ thought = "" /\ prompt = ""
    /\ probabilities = <<>>
    /\ ret = NoRet
    /\ history = <<>>
    /\ promptContext = NewPromptContext

AnalyzeThoughtPatterns ==
    /\ pc = "call"
    /\ pc' = "analyzeThoughtPatterns"
    /\ ret' = Returned("analyzeThoughtPatterns",
                       analyzeThoughtPatterns(existingThoughts, promptMetadata))
    /\ UNCHANGED <<newThought, existingThoughts, similarity, assumption1,
                   assumption2, thought, promptMetadata, prompt, probabilities,
                   history, promptContext>>

NextPatterns == AnalyzeThoughtPatterns

SpecPatterns == InitPatterns /\ [][NextPatterns]_vars

-----------------------------------------------------------------------------
(* Specification SpecEntropy: calculateEntropy on a list of frequencies    *)

InitEntropy ==
    /\ pc = "call"
    /\ probabilities \in Distributions
    /\ existingThoughts = <<>>
    /\ promptMetadata = IdleMetadata
    /\ newThought = TextThought(1, "")
    /\ similarity = <<>>
    /\ assumption1 = "" /\ assumption2 = ""
    /\ thought = "" /\ prompt = ""
    /\ ret = NoRet
    /\ history = <<>>
    /\ promptContext = NewPromptContext

CalculateEntropy ==
    /\ pc = "call"
    /\ pc' = "calculateEntropy"
    /\ ret' = Returned("calculateEntropy", calculateEntropy(probabilities))
    /\ UNCHANGED <<newThought, existingThoughts, similarity, assumption1,
                   assumption2, thought, promptMetadata, prompt, probabilities,
                   history, promptContext>>

NextEntropy == CalculateEntropy

SpecEntropy == InitEntropy /\ [][NextEntropy]_vars

-----------------------------------------------------------------------------
(* Properties of analyzeThoughtPatterns and calculateEntropy               *)

\* C12: on fewer than 3 summaries, whatever they hold and whatever the
\* metadata, analyzeThoughtPatterns returns no dominant pattern, no suggested
\* shift, thinkingDiversity 5 and patternEvolution stable
C12_FewSummariesDefault ==
    (pc = "analyzeThoughtPatterns" /\ Len(existingThoughts) < 3)
        => /\ ret.value.dominantPatterns = <<>>
           /\ ret.value.suggestedPatternShifts = <<>>
           /\ ret.value.thinkingDiversity = <<5, 1>>
           /\ ret.value.patternEvolution = "stable"
           /\ DOMAIN ret.value = {"dominantPatterns", "suggestedPatternShifts",
                                  "thinkingDiversity", "patternEvolution"}

\* two summaries without a Verification phase that use no tool, which a
\* longer list would have reported as patterns
C12_Witness ==
    /\ pc = "analyzeThoughtPatterns"
    /\ Len(existingThoughts) = 2
    /\ \A i \in 1..2 : /\ existingThoughts[i].phase # Present("Verification")
                       /\ ~IsPresent(existingThoughts[i].toolsUsed)
    /\ ret.value.dominantPatterns = <<>>

PlanningCount ==
    Cardinality({i \in 1..Len(existingThoughts) :
                    existingThoughts[i].phase = Present("Planning")})

PlanningHeavyReported ==
    SelectSeq(ret.value.dominantPatterns,
              LAMBDA pattern : pattern.patternName = "Planning-Heavy")

\* C13: on 3 or more summaries, when more than 0.4 of them have phase
\* Planning a dominant pattern Planning-Heavy is reported with that fraction
\* as frequency, positive for a complex task and negative for a simple or
\* medium one; when at most 0.4 have phase Planning none is reported
C13_PlanningHeavy ==
    (pc = "analyzeThoughtPatterns" /\ Len(existingThoughts) >= 3)
        => IF 5 * PlanningCount > 2 * Len(existingThoughts)
           THEN /\ Len(PlanningHeavyReported) = 1
                /\ PlanningHeavyReported[1].frequency[1] * Len(existingThoughts)
                       = PlanningCount * PlanningHeavyReported[1].frequency[2]
                /\ PlanningHeavyReported[1].impact
                       = IF promptMetadata.complexity = "complex"
                         THEN "positive" ELSE "negative"
           ELSE PlanningHeavyReported = <<>>

\* phases Planning, Planning, Execution for a simple task: Planning-Heavy
\* with frequency 2/3 and a negative impact
C13_Witness ==
    /\ pc = "analyzeThoughtPatterns"
    /\ Len(existingThoughts) = 3
    /\ existingThoughts[1].phase = Present("Planning")
    /\ existingThoughts[2].phase = Present("Planning")
    /\ existingThoughts[3].phase = Present("Execution")
    /\ promptMetadata.complexity = "simple"
    /\ Len(PlanningHeavyReported) = 1
    /\ PlanningHeavyReported[1].frequency = <<2, 3>>
    /\ PlanningHeavyReported[1].impact = "negative"

PositiveEntries == {i \in 1..Len(probabilities) : probabilities[i][1] > 0}

-----------------------------------------------------------------------------
(* ContradictionDetector: factual statements that contradict each other    *)
(* across thoughts                                                         *)

EndsWith(s, suffix) ==
    Len(s) >= Len(suffix) /\ SubSeq(s, Len(s) - Len(suffix) + 1, Len(s)) = suffix

\* s.replace(/[^\w\s]/g, ' ')
RECURSIVE PunctuationToSpace(_)
PunctuationToSpace(s) ==
    IF Len(s) = 0 THEN ""
    ELSE IF Len(s) = 1 THEN (IF s \in WordChars \cup SpaceChars THEN s ELSE " ")
    ELSE LET half == Len(s) \div 2
         IN PunctuationToSpace(SubSeq(s, 1, half))
                \o PunctuationToSpace(SubSeq(s, half + 1, Len(s)))

\* s.replace(/\s+/g, ' ')
CollapseSpaces(s) == Join(SplitRuns(s, SpaceChars), " ")

\* lower case, punctuation as spaces, single spaces, trimmed: words of \w
\* characters with one space between them
normalizeStatement(statement) ==
    Trim(CollapseSpaces(PunctuationToSpace(ToLowerCase(statement))))

\* s.replace(sub, rep) for a string sub: the first occurrence only
ReplaceFirst(s, sub, rep) ==
    IF Includes(s, sub)
    THEN SubSeq(s, 1, IndexOf(s, sub)) \o rep
             \o SubSeq(s, IndexOf(s, sub) + Len(sub) + 1, Len(s))
    ELSE s

\* statement.split(' ')
SpaceSplit(statement) == SplitEach(statement, {" "})

\* statement.replace(/\b(some|all)\b/g, 'no') on a normalized statement,
\* where a word boundary is a space or an end of the string
someAllToNo(statement) ==
    Only({ Join([i \in 1..Len(words) |->
                    IF words[i] \in {"some", "all"} THEN "no" ELSE words[i]], " ") :
           words \in {SpaceSplit(statement)} })

negationPairs ==
    <<<<"always", "never">>, <<"everyone", "no one">>, <<"everything", "nothing">>,
      <<"all", "none">>, <<"must", "must not">>, <<"can", "cannot">>,
      <<"is", "is not">>, <<"will", "will not">>, <<"should", "should not">>>>

ContextWindow == 3

\* the words up to 3 places before and after the first word equal to term,
\* without the words equal to term; none when no word equals term
extractContext(statement, term) ==
    Only({ IF \A i \in 1..Len(words) : words[i] # term THEN <<>>
           ELSE Only({ SelectSeq(SubSeq(words,
                                        IF termIndex - ContextWindow < 1
                                        THEN 1 ELSE termIndex - ContextWindow,
                                        IF termIndex + ContextWindow > Len(words)
                                        THEN Len(words) ELSE termIndex + ContextWindow),
                                 LAMBDA word : word # term) :
                       termIndex \in {CHOOSE i \in 1..Len(words) :
                                         /\ words[i] = term
                                         /\ \A j \in 1..(i - 1) : words[j] # term} }) :
           words \in {SpaceSplit(statement)} })

\* overlap.length >= Math.min(context1.length, context2.length) * 0.3
contextOverlap(context1, context2) ==
    10 * Cardinality({i \in 1..Len(context1) : context1[i] \in Range(context2)})
        >= 3 * (IF Len(context1) < Len(context2) THEN Len(context1) ELSE Len(context2))

Spaced(term) == " " \o term \o " "

\* one pair of isDirectNegation's loop, in both directions
negationPairMatches(statement1, statement2, pos, neg) ==
    \/ /\ Includes(statement1, Spaced(pos)) /\ Includes(statement2, Spaced(neg))
       /\ contextOverlap(extractContext(statement1, pos), extractContext(statement2, neg))
    \/ /\ Includes(statement2, Spaced(pos)) /\ Includes(statement1, Spaced(neg))
       /\ contextOverlap(extractContext(statement1, neg), extractContext(statement2, pos))

isDirectNegation(statement1, statement2) ==
    \/ /\ Includes(statement1, " not ")
       /\ Includes(statement2, ReplaceFirst(statement1, " not ", " "))
    \/ /\ Includes(statement2, " not ")
       /\ Includes(statement1, ReplaceFirst(statement2, " not ", " "))
    \/ /\ StartsWith(statement1, "no ") \/ Includes(statement1, " no ")
       /\ Includes(someAllToNo(statement2), statement1)
    \/ /\ StartsWith(statement2, "no ") \/ Includes(statement2, " no ")
       /\ Includes(someAllToNo(statement1), statement2)
    \/ \E k \in 1..Len(negationPairs) :
          negationPairMatches(statement1, statement2,
                              negationPairs[k][1], negationPairs[k][2])

HasWord(statement, word) ==
    Includes(statement, Spaced(word)) \/ StartsWith(statement, word \o " ")

\* statement.match(/\bQ\s+([\w\s]+?)\b/i) on a normalized statement: the word
\* that follows the first word Q that has a word after it
extractSubjectAfterQuantifier(statement, quantifier) ==
    Only({ IF \E i \in 1..(Len(words) - 1) : words[i] = quantifier
           THEN Present(words[1 + CHOOSE i \in 1..(Len(words) - 1) :
                                  /\ words[i] = quantifier
                                  /\ \A j \in 1..(i - 1) : words[j] # quantifier])
           ELSE Absent :
           words \in {SpaceSplit(statement)} })

areSubjectsSimilar(subject1, subject2) ==
    \/ subject1 = subject2
    \/ Includes(subject1, subject2) \/ Includes(subject2, subject1)
    \/ \E words1 \in {SpaceSplit(subject1)}, words2 \in {SpaceSplit(subject2)} :
          \E i \in 1..Len(words1) :
             Len(words1[i]) > 3 /\ words1[i] \in Range(words2)

\* first || second of two string | null values
OrElse(first, second) == IF Truthy(first) THEN first ELSE second

\* all in allStatement against none or no in noneStatement, about similar
\* subjects
quantifiersOppose(allStatement, noneStatement) ==
    /\ HasWord(allStatement, "all")
    /\ HasWord(noneStatement, "none") \/ HasWord(noneStatement, "no")
    /\ \E subject1 \in {extractSubjectAfterQuantifier(allStatement, "all")},
          subject2 \in {OrElse(extractSubjectAfterQuantifier(noneStatement, "none"),
                               extractSubjectAfterQuantifier(noneStatement, "no"))} :
          /\ Truthy(subject1) /\ Truthy(subject2)
          /\ areSubjectsSimilar(Get(subject1), Get(subject2))

hasQuantifierContradiction(statement1, statement2) ==
    quantifiersOppose(statement1, statement2) \/ quantifiersOppose(statement2, statement1)

\* statement.match(/(.+?)\s+WORD\s+(.+)/i) on a normalized statement: what
\* stands before and after the first " WORD " that has text on both sides
eventsAround(statement, word) ==
    Only({ IF cuts = {} THEN Absent
           ELSE Only({ Present([event1 |-> Trim(SubSeq(statement, 1, cut - 1)),
                                event2 |-> Trim(SubSeq(statement, cut + Len(word) + 2,
                                                       Len(statement)))]) :
                       cut \in {KthSmallest(cuts, 1)} }) :
           cuts \in {{i \in 2..(Len(statement) - Len(word) - 2) :
                        SubSeq(statement, i, i + Len(word) + 1) = Spaced(word)}} })

extractTemporalEvents(statement) ==
    Only({ IF IsPresent(beforeMatch) THEN beforeMatch
           ELSE eventsAround(statement, "after") :
           beforeMatch \in {eventsAround(statement, "before")} })

temporalPairs ==
    <<<<"first", "last">>, <<"start", "end">>, <<"begin", "finish">>,
      <<"earlier", "later">>>>

\* the context of term1 when the statement has the letters of term1,
\* otherwise that of term2
contextOfEither(statement, term1, term2) ==
    IF Includes(statement, term1) THEN extractContext(statement, term1)
    ELSE extractContext(statement, term2)

\* one pair of opposed terms, one in each statement, in overlapping contexts
termsOppose(statement1, statement2, term1, term2) ==
    /\ \/ Includes(statement1, Spaced(term1)) /\ Includes(statement2, Spaced(term2))
       \/ Includes(statement1, Spaced(term2)) /\ Includes(statement2, Spaced(term1))
    /\ contextOverlap(contextOfEither(statement1, term1, term2),
                      contextOfEither(statement2, term1, term2))

hasTemporalContradiction(statement1, statement2) ==
    \/ /\ \/ Includes(statement1, " before ") /\ Includes(statement2, " after ")
          \/ Includes(statement1, " after ") /\ Includes(statement2, " before ")
       /\ \E events1 \in {extractTemporalEvents(statement1)},
             events2 \in {extractTemporalEvents(statement2)} :
             /\ IsPresent(events1) /\ IsPresent(events2)
             /\ Get(events1).event1 = Get(events2).event2
             /\ Get(events1).event2 = Get(events2).event1
    \/ \E k \in 1..Len(temporalPairs) :
          termsOppose(statement1, statement2, temporalPairs[k][1], temporalPairs[k][2])

exclusivePairs ==
    <<<<"required", "optional">>, <<"mandatory", "voluntary">>,
      <<"always", "sometimes">>, <<"never", "sometimes">>, <<"all", "some">>,
      <<"none", "some">>, <<"true", "false">>, <<"correct", "incorrect">>,
      <<"right", "wrong">>, <<"success", "failure">>, <<"increase", "decrease">>,
      <<"higher", "lower">>, <<"more", "less">>, <<"add", "remove">>,
      <<"include", "exclude">>, <<"enable", "disable">>, <<"start", "stop">>>>

hasMutuallyExclusiveCategories(statement1, statement2) ==
    \E k \in 1..Len(exclusivePairs) :
       termsOppose(statement1, statement2, exclusivePairs[k][1], exclusivePairs[k][2])

detectLogicalContradiction(statement1, statement2) ==
    Only({ IF isDirectNegation(norm1, norm2)
           THEN Present("Direct logical negation detected")
           ELSE IF hasQuantifierContradiction(norm1, norm2)
           THEN Present("Quantifier contradiction detected (all vs. some)")
           ELSE IF hasTemporalContradiction(norm1, norm2)
           THEN Present("Temporal contradiction detected (before vs. after)")
           ELSE IF hasMutuallyExclusiveCategories(norm1, norm2)
           THEN Present("Mutually exclusive categories detected")
           ELSE Absent :
           norm1 \in {normalizeStatement(statement1)},
           norm2 \in {normalizeStatement(statement2)} })

hedgingWords ==
    <<"might", "may", "could", "possibly", "perhaps", "probably", "seems",
      "appears", "likely", "unlikely", "sometimes", "often", "rarely", "usually",
      "generally", "typically">>

opinionIndicators ==
    <<"i think", "i believe", "in my opinion", "i feel", "i would", "i suggest",
      "i recommend", "i prefer">>

\* a declarative sentence without hedging and without an opinion
isFactual(sentence) ==
    /\ ~EndsWith(sentence, "?")
    /\ \A k \in 1..Len(hedgingWords) :
          ~Includes(ToLowerCase(sentence), Spaced(hedgingWords[k]))
    /\ ~IncludesAny(ToLowerCase(sentence), opinionIndicators)

extractFactualStatements(thoughtData) ==
    SelectSeq(Sentences(thoughtData.thought), isFactual)

nounEndings ==
    {"tion", "ment", "ity", "ness", "ance", "ence", "er", "or", "ism", "ist", "ing",
     "ology", "graphy"}

\* each word that ends like a noun, with the word before it
extractNounPhrases(statement) ==
    Only({ Only({ Computed([k \in 1..Cardinality(nouns) |->
                               ToLowerCase(StripNonWord(words[KthSmallest(nouns, k)]))
                                  \o " "
                                  \o ToLowerCase(StripNonWord(
                                         words[KthSmallest(nouns, k) + 1]))]) :
                  nouns \in {{i \in 1..(Len(words) - 1) :
                                \E ending \in nounEndings :
                                   EndsWith(ToLowerCase(StripNonWord(words[i + 1])),
                                            ending)}} }) :
           words \in {Words(statement)} })

IsCapitalized(word) == Len(word) > 0 /\ CharAt(word, 1) \in UpperChars

\* ContradictionDetector.extractEntities: the capitalized words after the
\* first word, then the noun phrases, each once
extractStatementEntities(statement) ==
    Only({ Dedup(Computed(
               SelectSeq([i \in 1..(Len(words) - 1) |-> StripNonWord(words[i + 1])],
                         IsCapitalized)
                  \o extractNounPhrases(statement))) :
           words \in {Words(statement)} })

\* the statements of one thought, each with the thought's number and its
\* entities
factsOfThought(thoughtData) ==
    Only({ Computed([k \in 1..Len(statements) |->
                        [thoughtNumber |-> thoughtData.thoughtNumber,
                         statement |-> statements[k],
                         entities |-> extractStatementEntities(statements[k])]]) :
           statements \in {extractFactualStatements(thoughtData)} })

RECURSIVE factsOfThoughts(_)
factsOfThoughts(thoughts) ==
    IF thoughts = <<>> THEN <<>>
    ELSE factsOfThoughts(SubSeq(thoughts, 1, Len(thoughts) - 1))
            \o factsOfThought(thoughts[Len(thoughts)])

sharedEntitiesOf(fact1, fact2) ==
    SelectSeq(fact1.entities, LAMBDA entity : entity \in Range(fact2.entities))

\* inconsistencyOf comparing two statements of one thought as well
inconsistencyOf_SameThoughtToo(fact1, fact2) ==
    Only({ IF Len(sharedEntities) = 0 THEN Absent
                ELSE Only({ IF ~Truthy(contradiction) THEN Absent
                            ELSE Present(
                                   [fact1 |-> [thoughtNumber |-> fact1.thoughtNumber,
                                               statement |-> fact1.statement],
                                    fact2 |-> [thoughtNumber |-> fact2.thoughtNumber,
                                               statement |-> fact2.statement],
                                    explanation |->
                                        Get(contradiction) \o " regarding "
                                           \o Join(sharedEntities, ", ")]) :
                            contradiction \in
                                {detectLogicalContradiction(fact1.statement,
                                                            fact2.statement)} }) :
                sharedEntities \in {sharedEntitiesOf(fact1, fact2)} })

\* what the pair of statements adds to the inconsistencies: nothing, or one
\* record
inconsistencyOf(fact1, fact2) ==
    IF fact1.thoughtNumber = fact2.thoughtNumber THEN Absent
    ELSE Only({ IF Len(sharedEntities) = 0 THEN Absent
                ELSE Only({ IF ~Truthy(contradiction) THEN Absent
                            ELSE Present(
                                   [fact1 |-> [thoughtNumber |-> fact1.thoughtNumber,
                                               statement |-> fact1.statement],
                                    fact2 |-> [thoughtNumber |-> fact2.thoughtNumber,
                                               statement |-> fact2.statement],
                                    explanation |->
                                        Get(contradiction) \o " regarding "
                                           \o Join(sharedEntities, ", ")]) :
                            contradiction \in
                                {detectLogicalContradiction(fact1.statement,
                                                            fact2.statement)} }) :
                sharedEntities \in {sharedEntitiesOf(fact1, fact2)} })

\* a pair of statements i < j as the number (i - 1) * n + j, which orders the
\* pairs as the two loops visit them
firstOfPair(pair, n) == (pair - 1) \div n + 1
secondOfPair(pair, n) == ((pair - 1) % n) + 1

detectFactualInconsistencies(thoughts) ==
    Only({ Only({ Computed([k \in 1..Cardinality(reported) |->
                      Get(inconsistencyOf(
                              facts[firstOfPair(KthSmallest(reported, k), Len(facts))],
                              facts[secondOfPair(KthSmallest(reported, k), Len(facts))]))]) :
                  reported \in
                      {{pair \in 1..(Len(facts) * Len(facts)) :
                           /\ firstOfPair(pair, Len(facts)) < secondOfPair(pair, Len(facts))
                           /\ IsPresent(inconsistencyOf(
                                  facts[firstOfPair(pair, Len(facts))],
                                  facts[secondOfPair(pair, Len(facts))]))}} }) :
           facts \in {factsOfThoughts(thoughts)} })

-----------------------------------------------------------------------------
(* Specification SpecCalls: a caller that holds one set of arguments and   *)
(* calls the entry points one after another, in any order                  *)

MaxCalls == 2

SessionThought(n, text, classification, assumptions, phase, toolsUsed) ==
    [thoughtNumber |-> n, isRevision |-> FALSE, thought |-> text,
     classification |-> classification, assumptions |-> assumptions,
     phase |-> phase, toolsUsed |-> toolsUsed]

\* thoughts that contradict each other, state opposed facts about the same
\* entity and negate the constraint of the prompt
SessionThoughts ==
    <<SessionThought(1, "The Server is always up", Present("hypothesis"),
                     Present(<<"x">>), Present("Planning"), Present(<<"search">>)),
      SessionThought(2, "the Server is never up", Present("conclusion"),
                     Present(<<"not x">>), Present("Planning"), Absent),
      SessionThought(3, "not so, you must never allow the system to fail",
                     Present("observation"), Absent, Present("Execution"),
                     Present(<<"search", "editor">>)),
      SessionThought(4, "All Server nodes run", Absent, Present(<<"y">>),
                     Present("Verification"), Present(<<>>)),
      SessionThought(5, "no Server node runs", Present("question"),
                     Present(<<"Not Y">>), Absent, Present(<<"editor">>))>>

SessionLengths == {0, 3, Len(SessionThoughts)}

\* every argument the caller holds
Arguments ==
    <<newThought, existingThoughts, similarity, assumption1, assumption2, thought,
      promptMetadata, prompt, probabilities>>

InitCalls ==
    /\ pc = "call"
    /\ prompt = ScenarioPrompt
    /\ promptMetadata = analyzePrompt(prompt)
    /\ existingThoughts \in {SubSeq(SessionThoughts, 1, n) : n \in SessionLengths}
    /\ newThought = SessionThought(6, "It does NOT work", Present("conclusion"),
                                   Present(<<"not x">>), Present("Analysis"), Absent)
    /\ similarity = [i \in 1..Len(existingThoughts) |-> SimilarityGate + 1]
    /\ thought = newThought.thought
    /\ assumption1 = "" /\ assumption2 = ""
    /\ probabilities = <<>>
    /\ ret = NoRet
    /\ history = <<>>
    /\ promptContext = NewPromptContext

DetectFactualInconsistencies ==
    /\ pc = "call"
    /\ pc' = "detectFactualInconsistencies"
    /\ ret' = Returned("detectFactualInconsistencies",
                       detectFactualInconsistencies(existingThoughts))
    /\ UNCHANGED <<newThought, existingThoughts, similarity, assumption1,
                   assumption2, thought, promptMetadata, prompt, probabilities,
                   history, promptContext>>

\* the caller takes the result and is ready for its next call
ReturnToCaller ==
    /\ pc # "call"
    /\ Len(history) < MaxCalls
    /\ pc' = "call"
    /\ history' = Append(history, ret)
    /\ UNCHANGED <<newThought, existingThoughts, similarity, assumption1,
                   assumption2, thought, promptMetadata, prompt, probabilities, ret,
                   promptContext>>

NextCalls ==
    \/ CheckContradictions
    \/ AnalyzeAssumptionContradictions
    \/ CheckPromptContradictions
    \/ AnalyzePromptConsistency
    \/ DetectFactualInconsistencies
    \/ AnalyzeThoughtPatterns
    \/ AnalyzePrompt
    \/ AnalyzeThoughtAlignment
    \/ CheckForTopicDrift
    \/ ReturnToCaller

SpecCalls == InitCalls /\ [][NextCalls]_vars

-----------------------------------------------------------------------------
(* Properties of sequences of calls                                        *)

-----------------------------------------------------------------------------
(* Properties of analyzeAssumptionContradictions                           *)

AssumptionsOf(t) == IF IsPresent(t.assumptions) THEN Get(t.assumptions) ELSE <<>>

\* <<a, j, b>>: assumption a of thoughts[i] conflicts with assumption b of
\* another thought, thoughts[j]
ConflictingPairsOf(thoughts, i) ==
    UNION {{<<p[1], j, p[2]>> :
              p \in {q \in (1..Len(AssumptionsOf(thoughts[i])))
                              \X (1..Len(AssumptionsOf(thoughts[j]))) :
                        areAssumptionsConflicting(AssumptionsOf(thoughts[i])[q[1]],
                                                  AssumptionsOf(thoughts[j])[q[2]])}} :
           j \in (1..Len(thoughts)) \ {i}}

ConflictText(thoughts, i, pair) ==
    "\"" \o AssumptionsOf(thoughts[i])[pair[1]] \o "\" conflicts with \""
        \o AssumptionsOf(thoughts[pair[2]])[pair[3]] \o "\" in thought "
        \o ToString(thoughts[pair[2]].thoughtNumber)

ReportsFor(reports, n) == SelectSeq(reports, LAMBDA r : r.thoughtNumber = n)

-----------------------------------------------------------------------------
(* Specification SpecFacts: detectFactualInconsistencies on lists of       *)
(* thoughts that make statements about a server                            *)

MaxFactThoughts == 2

\* statements that oppose each other about one entity, a question, a thought
\* of two sentences, a statement without an entity and a hedged one
FactTexts ==
    {"The Server is always up", "the Server is never up",
     "Is the Server always up?", "The Server is always up. The Server is never up",
     "It is always up", "the Server probably is never up"}

\* a thought carries its position as its number, or the number 1
FactThoughtLists ==
    UNION {{[i \in 1..Len(texts) |-> TextThought(IF numbered[i] THEN i ELSE 1, texts[i])] :
               numbered \in [1..Len(texts) -> BOOLEAN]} :
           texts \in SeqsUpTo(FactTexts, MaxFactThoughts)}

InitFacts ==
    /\ pc = "call"
    /\ existingThoughts \in FactThoughtLists
    /\ promptMetadata = IdleMetadata
    /\ newThought = TextThought(1, "")
    /\ similarity = <<>>
    /\ assumption1 = "" /\ assumption2 = ""
    /\ thought = "" /\ prompt = ""
    /\ probabilities = <<>>
    /\ ret = NoRet
    /\ history = <<>>
    /\ promptContext = NewPromptContext

NextFacts == DetectFactualInconsistencies

SpecFacts == InitFacts /\ [][NextFacts]_vars

-----------------------------------------------------------------------------
(* Properties of detectFactualInconsistencies                              *)

\* the two statements of a record, in no order
StatementsOf(record) == {record.fact1, record.fact2}

\* the statements the thoughts make, each occurrence with its thought's number
StatementOccurrences ==
    Only({ Computed([k \in 1..Len(facts) |->
                        [thoughtNumber |-> facts[k].thoughtNumber,
                         statement |-> facts[k].statement]]) :
           facts \in {factsOfThoughts(existingThoughts)} })

\* C22: the two statements of a reported inconsistency come from thoughts with
\* different numbers and share an extracted entity, and a pair of statements
\* is reported no more often than it occurs in the thoughts
C22_DistinctThoughtsSharedEntityOnce ==
    pc = "detectFactualInconsistencies"
        => \E occurrences \in {StatementOccurrences} :
           \A r \in 1..Len(ret.value) :
              /\ ret.value[r].fact1.thoughtNumber # ret.value[r].fact2.thoughtNumber
              /\ Range(extractStatementEntities(ret.value[r].fact1.statement))
                    \cap Range(extractStatementEntities(ret.value[r].fact2.statement)) # {}
              /\ Cardinality({q \in 1..Len(ret.value) :
                                 StatementsOf(ret.value[q]) = StatementsOf(ret.value[r])})
                    <= Cardinality({pair \in (1..Len(occurrences)) \X (1..Len(occurrences)) :
                                       /\ pair[1] < pair[2]
                                       /\ {occurrences[pair[1]], occurrences[pair[2]]}
                                             = StatementsOf(ret.value[r])})

\* a thought whose two sentences oppose each other and a second thought: only
\* the pair across the thoughts is reported
C22_Witness ==
    /\ pc = "detectFactualInconsistencies"
    /\ Len(existingThoughts) = 2
    /\ existingThoughts[1].thought = "The Server is always up. The Server is never up"
    /\ existingThoughts[2].thought = "the Server is never up"
    /\ existingThoughts[2].thoughtNumber = 2
    /\ Len(ret.value) = 1
    /\ ret.value[1].fact1 = [thoughtNumber |-> 1, statement |-> "The Server is always up"]
    /\ ret.value[1].fact2 = [thoughtNumber |-> 2, statement |-> "the Server is never up"]

\* the sentence is written in a thought with this number and ends there with a
\* question mark
IsQuestionOfThought(fact) ==
    \E i \in 1..Len(existingThoughts) :
        /\ existingThoughts[i].thoughtNumber = fact.thoughtNumber
        /\ Includes(existingThoughts[i].thought, fact.statement \o "?")

\* C24: no reported inconsistency has a question, a sentence that its thought
\* ends with a question mark, as fact1 or fact2
C24_QuestionsDropped ==
    pc = "detectFactualInconsistencies"
        => \A r \in 1..Len(ret.value) :
              /\ ~IsQuestionOfThought(ret.value[r].fact1)
              /\ ~IsQuestionOfThought(ret.value[r].fact2)

-----------------------------------------------------------------------------
(* Properties of checkForTopicDrift                                        *)

\* fewer than three tenths of the goal's keywords occur in the thought
MatchedBelowThreeTenths(goal) ==
    10 * CountMatches(ToLowerCase(thought), LongWords(goal))
        < 3 * Len(LongWords(goal))

GoalCorrections ==
    Only({ [i \in 1..Len(missed) |->
               "Consider addressing the goal: \"" \o missed[i] \o "\""] :
           missed \in {SelectSeq(promptMetadata.goals, MatchedBelowThreeTenths)} })

\* C23: checkForTopicDrift reports drift iff the alignment score is below 4;
\* with drift it gives a warning and, in the order of the goals, one correction
\* naming each goal matched below 0.3, or the one generic correction when
\* there is no such goal; without drift it gives nothing else; and
\* analyzeThoughtAlignment warns of drift for the same thoughts
C23_DriftBelowFour ==
    /\ pc = "checkForTopicDrift"
          => /\ ret.value.hasDrift
                   <=> calculateAlignmentScore(thought, promptMetadata) < 4
             /\ ret.value.hasDrift
                   => /\ IsPresent(ret.value.warning)
                      /\ IsPresent(ret.value.corrections)
                      /\ Len(Get(ret.value.corrections)) > 0
                      /\ Get(ret.value.corrections)
                            = (IF GoalCorrections # <<>> THEN GoalCorrections
                               ELSE <<"Try to align more closely with the original prompt goals">>)
             /\ ~ret.value.hasDrift
                   => ~IsPresent(ret.value.warning) /\ ~IsPresent(ret.value.corrections)
    /\ pc = "analyzeThoughtAlignment"
          => (IsPresent(ret.value.driftWarning)
                 <=> calculateAlignmentScore(thought, promptMetadata) < 4)

\* a drifting thought with one goal that has no keyword and one it neglects
C23_Witness ==
    /\ pc = "checkForTopicDrift"
    /\ thought = "nothing relevant here"
    /\ promptMetadata.goals = <<"Do it", "Write code">>
    /\ ret.value.hasDrift
    /\ Get(ret.value.corrections) = <<"Consider addressing the goal: \"Write code\"">>

-----------------------------------------------------------------------------
(* Properties of extractKeywords                                           *)

\* the tokens of the prompt that survive the filters, in the order written
KeywordTokens == SelectSeq(LongWords(prompt), LAMBDA word : word \notin stopWords)

TokenCount(tokens, word) == Cardinality({i \in 1..Len(tokens) : tokens[i] = word})

FirstOccurrence(tokens, word) == CHOOSE i \in 1..Len(tokens) :
    tokens[i] = word /\ \A j \in 1..(i - 1) : tokens[j] # word

\* C26: the keywords of a prompt are its surviving tokens by descending
\* frequency, tokens of equal frequency in the order of their first
\* occurrence in the prompt, tokens made of digits included
C26_TiesByFirstOccurrence ==
    pc = "analyzePrompt"
        => \E tokens \in {KeywordTokens} :
           \A i, j \in 1..Len(ret.value.keywords) :
              i < j =>
                 \E a \in {ret.value.keywords[i]} : \E b \in {ret.value.keywords[j]} :
                    \/ TokenCount(tokens, a) > TokenCount(tokens, b)
                    \/ /\ TokenCount(tokens, a) = TokenCount(tokens, b)
                       /\ FirstOccurrence(tokens, a) < FirstOccurrence(tokens, b)

-----------------------------------------------------------------------------
(* Properties of detectPromptElementContradiction                          *)

NegationExplanationStart == "Thought negates the prompt element: \""

\* the (up to) three whitespace tokens that end before the first occurrence
\* of the phrase in the text
TokensBeforePhrase(text, phrase) ==
    Only({ Only({ SubSeq(whole, IF Len(whole) > 3 THEN Len(whole) - 2 ELSE 1, Len(whole)) :
                  whole \in {IF Len(before) > 0
                                  /\ CharAt(before, Len(before)) \notin SpaceChars
                             THEN SubSeq(tokens, 1, Len(tokens) - 1)
                             ELSE tokens} }) :
           before \in {SubSeq(text, 1, IndexOf(text, phrase))},
           tokens \in {SelectSeq(Words(SubSeq(text, 1, IndexOf(text, phrase))), NonEmpty)} })

NegationBeforePhrase(text, phrase) ==
    \E tokens \in {TokensBeforePhrase(text, phrase)} :
        \E i \in 1..Len(tokens) : tokens[i] \in promptNegationWords

PromptElements == promptMetadata.goals \o promptMetadata.constraints

\* C25: for a phrase of a prompt element that the thought repeats verbatim, a
\* negation word among the 3 tokens before the first occurrence of the
\* phrase gives the element a contradiction, and the thought is said to
\* negate a phrase only when such a negation word is there
C25_NegationWithinThreeTokens ==
    pc = "checkPromptContradictions"
        => \E text \in {ToLowerCase(newThought.thought)} :
           /\ \A e \in 1..Len(PromptElements) :
                 \E phrases \in {keyPhrases(ToLowerCase(PromptElements[e]))} :
                 \A k \in 1..Len(phrases) :
                    (/\ Len(phrases[k]) >= 4
                     /\ Includes(text, phrases[k])
                     /\ NegationBeforePhrase(text, phrases[k]))
                       => \E d \in 1..Len(ret.value.details) :
                             ret.value.details[d].element = PromptElements[e]
           /\ \A d \in 1..Len(ret.value.details) :
                 \E explanation \in {ret.value.details[d].explanation} :
                    StartsWith(explanation, NegationExplanationStart)
                       => NegationBeforePhrase(
                              text,
                              SubSeq(explanation, Len(NegationExplanationStart) + 1,
                                     Len(explanation) - 1))

-----------------------------------------------------------------------------
(* Properties of the suggested pattern shifts                              *)

NegativePatterns ==
    SelectSeq(ret.value.dominantPatterns, LAMBDA pattern : pattern.impact = "negative")

\* where the shift for a negative pattern starts from
ShiftFrom ==
    [name \in {"Planning-Heavy", "Execution-Focused", "Verification-Light", "Tool-Avoidant"} |->
        CASE name = "Planning-Heavy" -> "Excessive planning"
          [] name = "Execution-Focused" -> "Immediate execution"
          [] name = "Verification-Light" -> "Limited verification"
          [] name = "Tool-Avoidant" -> "Manual reasoning only"]

DiversityShiftStarts ==
    {"Narrow thinking patterns", "Conventional thinking", "Single analytical framework"}

\* C27: the suggested shifts begin with one shift for each negative dominant
\* pattern, in the order of the patterns, only Planning-Heavy,
\* Execution-Focused, Verification-Light and Tool-Avoidant are ever negative,
\* no shift belongs to a positive or neutral pattern, and Execution-Focused is
\* negative, and gets its shift, exactly when complexity is not simple
C27_OneShiftPerNegativePattern ==
    pc = "analyzeThoughtPatterns"
        => \E negative \in {NegativePatterns} :
           \E shifts \in {ret.value.suggestedPatternShifts} :
              /\ Len(shifts) >= Len(negative)
              /\ \A i \in 1..Len(negative) :
                    /\ negative[i].patternName \in DOMAIN ShiftFrom
                    /\ shifts[i].from = ShiftFrom[negative[i].patternName]
              /\ \A i \in (Len(negative) + 1)..Len(shifts) :
                    shifts[i].from \in DiversityShiftStarts
              /\ \A i \in 1..Len(ret.value.dominantPatterns) :
                    ret.value.dominantPatterns[i].patternName = "Execution-Focused"
                       => /\ ret.value.dominantPatterns[i].impact = "negative"
                               <=> promptMetadata.complexity # "simple"
                          /\ (\E k \in 1..Len(shifts) : shifts[k].from = "Immediate execution")
                               <=> promptMetadata.complexity # "simple"

\* execution only, on a task of medium complexity: two negative patterns and
\* two neutral ones, two shifts
C27_Witness ==
    /\ pc = "analyzeThoughtPatterns"
    /\ promptMetadata.complexity = "medium"
    /\ Len(ret.value.dominantPatterns) = 4
    /\ Len(NegativePatterns) = 2
    /\ Len(ret.value.suggestedPatternShifts) = 2
    /\ ret.value.suggestedPatternShifts[1].from = "Immediate execution"
    /\ ret.value.suggestedPatternShifts[2].from = "Limited verification"

\* C28: the thinkingDiversity of analyzeThoughtPatterns is at least 5 and at
\* most 10, and no suggested shift is one of the low-diversity shifts
\* ("Narrow thinking patterns" and those for creative and analytical tasks)
C28_DiversityFromFiveToTen ==
    pc = "analyzeThoughtPatterns"
        => /\ ~RatLess(ret.value.thinkingDiversity, <<5, 1>>)
           /\ ~RatLess(<<10, 1>>, ret.value.thinkingDiversity)
           /\ \A i \in 1..Len(ret.value.suggestedPatternShifts) :
                 ret.value.suggestedPatternShifts[i].from \notin DiversityShiftStarts

\* a creative task whose thoughts are all in one phase, without tools or
\* classifications: the least diversity an analysis can compute
C28_Witness ==
    /\ pc = "analyzeThoughtPatterns"
    /\ Len(existingThoughts) >= MinPatternThoughts
    /\ \A i \in 1..Len(existingThoughts) :
          existingThoughts[i] = Summary(Present("Analysis"), Absent, Absent)
    /\ promptMetadata.taskType = "creative"
    /\ ret.value.thinkingDiversity = <<5, 1>>
    /\ Len(ret.value.suggestedPatternShifts) > 0

-----------------------------------------------------------------------------
(* Properties of the details of checkContradictions                        *)

\* the explanation is that of the first check that fires for the pair, in the
\* order classification opposition, conclusion negation, assumption conflict
IsFirstFiringCheck(explanation, thought1, thought2) ==
    IF hasOpposingClassifications(thought1, thought2)
    THEN explanation = "Opposing classifications: " \o Get(thought1.classification)
                           \o " vs " \o Get(thought2.classification)
    ELSE IF hasConflictingConclusions(thought1, thought2)
    THEN explanation = "Conflicting conclusions detected"
    ELSE /\ Truthy(checkAssumptionConflicts(thought1, thought2))
         /\ explanation = "Conflicting assumptions: "
                              \o Get(checkAssumptionConflicts(thought1, thought2))

\* C29: for a new thought that is not a revision, the details follow the
\* prior list, each prior thought giving at most one: a detail carries its
\* prior thought's number and the explanation of the first check that fires,
\* its prior thought is not a revision and does not have the new thought's
\* number; hasContradictions is true iff there is a detail
C29_DetailsFollowPriorList ==
    (pc = "checkContradictions" /\ ~newThought.isRevision)
        => \E details \in {ret.value.details} :
           /\ ret.value.hasContradictions <=> Len(details) > 0
           /\ \E prior \in [1..Len(details) -> 1..Len(existingThoughts)] :
                 /\ \A k \in 1..(Len(details) - 1) : prior[k] < prior[k + 1]
                 /\ \A k \in 1..Len(details) :
                       /\ details[k].thoughtNumber = existingThoughts[prior[k]].thoughtNumber
                       /\ ~existingThoughts[prior[k]].isRevision
                       /\ details[k].thoughtNumber # newThought.thoughtNumber
                       /\ IsFirstFiringCheck(details[k].explanation, newThought,
                                             existingThoughts[prior[k]])

\* a revision is passed over and the next prior thought, whose conclusion
\* and whose assumption both conflict with the new one's, is reported for its
\* conclusion
C29_Witness ==
    /\ pc = "checkContradictions"
    /\ ~newThought.isRevision
    /\ Len(existingThoughts) = 2
    /\ existingThoughts[1].isRevision
    /\ existingThoughts[1].thoughtNumber # newThought.thoughtNumber
    /\ similarity[1] > SimilarityGate
    /\ Len(ret.value.details) = 1
    /\ ret.value.details[1].thoughtNumber = existingThoughts[2].thoughtNumber
    /\ hasConflictingConclusions(newThought, existingThoughts[2])
    /\ Truthy(checkAssumptionConflicts(newThought, existingThoughts[2]))
    /\ ret.value.details[1].explanation = "Conflicting conclusions detected"

-----------------------------------------------------------------------------
(* Specification SpecContext: a caller that initializes a PromptContext    *)
(* with prompts and reads it, in any order                                 *)

ContextPrompts == {"", "Write code", ScenarioPrompt}

InitContext ==
    /\ pc = "call"
    /\ prompt \in ContextPrompts
    /\ promptMetadata = IdleMetadata
    /\ newThought = TextThought(1, "")
    /\ existingThoughts = <<>> /\ similarity = <<>>
    /\ assumption1 = "" /\ assumption2 = ""
    /\ thought = ""
    /\ probabilities = <<>>
    /\ ret = NoRet
    /\ history = <<>>
    /\ promptContext = NewPromptContext

\* initializeWithPrompt storing the metadata of the first prompt only
InitializeWithPrompt_MetadataOnce ==
    /\ pc = "call"
    /\ \E p \in ContextPrompts :
          /\ prompt' = p
          /\ promptContext' =
                [originalPrompt |-> p,
                 metadata |-> IF promptContext.metadata = Null THEN analyzePrompt(p)
                              ELSE promptContext.metadata]
    /\ pc' = "initializeWithPrompt"
    /\ ret' = Returned("initializeWithPrompt", Absent)
    /\ UNCHANGED <<newThought, existingThoughts, similarity, assumption1,
                   assumption2, thought, promptMetadata, probabilities, history>>

\* the caller passes any prompt; the analyzer is a PromptAnalyzer
InitializeWithPrompt ==
    /\ pc = "call"
    /\ \E p \in ContextPrompts :
          /\ prompt' = p
          /\ promptContext' = [originalPrompt |-> p, metadata |-> analyzePrompt(p)]
    /\ pc' = "initializeWithPrompt"
    /\ ret' = Returned("initializeWithPrompt", Absent)
    /\ UNCHANGED <<newThought, existingThoughts, similarity, assumption1,
                   assumption2, thought, promptMetadata, probabilities, history>>

GetMetadata ==
    /\ pc = "call"
    /\ pc' = "getMetadata"
    /\ ret' = Returned("getMetadata", promptContext.metadata)
    /\ UNCHANGED <<newThought, existingThoughts, similarity, assumption1,
                   assumption2, thought, promptMetadata, prompt, probabilities,
                   history, promptContext>>

GetOriginalPrompt ==
    /\ pc = "call"
    /\ pc' = "getOriginalPrompt"
    /\ ret' = Returned("getOriginalPrompt", promptContext.originalPrompt)
    /\ UNCHANGED <<newThought, existingThoughts, similarity, assumption1,
                   assumption2, thought, promptMetadata, prompt, probabilities,
                   history, promptContext>>

IsInitialized ==
    /\ pc = "call"
    /\ pc' = "isInitialized"
    /\ ret' = Returned("isInitialized", promptContext.metadata # Null)
    /\ UNCHANGED <<newThought, existingThoughts, similarity, assumption1,
                   assumption2, thought, promptMetadata, prompt, probabilities,
                   history, promptContext>>

NextContext ==
    \/ InitializeWithPrompt
    \/ GetMetadata
    \/ GetOriginalPrompt
    \/ IsInitialized
    \/ ReturnToCaller

SpecContext == InitContext /\ [][NextContext]_vars

-----------------------------------------------------------------------------
(* Properties of PromptContext                                             *)

\* initializeWithPrompt has been called, now or before; prompt is then the
\* prompt of the most recent call
Initialized ==
    \/ pc = "initializeWithPrompt"
    \/ \E i \in 1..Len(history) : history[i].op = "initializeWithPrompt"

\* C30: before the first initializeWithPrompt, isInitialized() is false,
\* getMetadata() is null and getOriginalPrompt() is empty; from the first
\* call on, isInitialized() is true and stays true, and getOriginalPrompt()
\* and getMetadata().originalPrompt are the prompt of the most recent call
C30_ContextFollowsLastPrompt ==
    /\ [](/\ pc = "isInitialized" => (ret.value <=> Initialized)
          /\ pc = "getOriginalPrompt"
                => ret.value = (IF Initialized THEN prompt ELSE "")
          /\ pc = "getMetadata"
                => IF Initialized
                   THEN ret.value # Null /\ ret.value.originalPrompt = prompt
                   ELSE ret.value = Null
          /\ promptContext.metadata # Null
                => promptContext.metadata.originalPrompt = promptContext.originalPrompt)
    /\ [][promptContext.metadata # Null => promptContext'.metadata # Null]_vars

\* the context was initialized twice, with different prompts, and is read
C30_Witness ==
    /\ pc = "getMetadata"
    /\ Len(history) = 2
    /\ history[1].op = "initializeWithPrompt"
    /\ history[2].op = "initializeWithPrompt"
    /\ prompt = "Write code"
    /\ ret.value # Null
    /\ ret.value.originalPrompt = "Write code"
    /\ ret.value.goals # <<>>

====
